---- MODULE Spec2Model ----
(***************************************************************************)
(* MergeMonk review backend: the diff-addressing functions of diffUtils.js,*)
(* the rule-based analyzer of reviewEngine.js, the patch pull request      *)
(* builder of patchPrService.js, the review pipeline of prService.js and   *)
(* the webhook handler that drives it.                                     *)
(*                                                                         *)
(* Text is modelled at the level the code inspects it: a line is a         *)
(* sequence of one-character strings, a diff text is the sequence of lines *)
(* that text.split('\n') yields (so a text always has at least one line,   *)
(* and a trailing newline shows as a last empty line).                     *)
(***************************************************************************)
EXTENDS Integers, Sequences, FiniteSets, TLC

(***************************************************************************)
(* Bounds of the model.                                                    *)
(***************************************************************************)
MaxLines == 3
MaxComments == 2
MaxPatches == 2
MaxFiles == 3
MaxChars == 3

(***************************************************************************)
(* Characters and lines.                                                   *)
(***************************************************************************)
Digits == {"0", "1", "2", "3", "4", "5", "6", "7", "8", "9"}

DigitVal(c) ==
  CASE c = "0" -> 0 [] c = "1" -> 1 [] c = "2" -> 2 [] c = "3" -> 3
    [] c = "4" -> 4 [] c = "5" -> 5 [] c = "6" -> 6 [] c = "7" -> 7
    [] c = "8" -> 8 [] c = "9" -> 9

\* line[i], or the empty string past the end of the line
At(line, i) == IF i >= 1 /\ i <= Len(line) THEN line[i] ELSE ""

\* String.prototype.startsWith
StartsWith(line, prefix) ==
  Len(line) >= Len(prefix) /\ SubSeq(line, 1, Len(prefix)) = prefix

\* the first index at or after i that holds no digit (the end of \d* from i)
RECURSIVE SkipDigits(_, _)
SkipDigits(line, i) ==
  IF At(line, i) \in Digits THEN SkipDigits(line, i + 1) ELSE i

\* parseInt(s, 10) of a string of digits
RECURSIVE parseInt(_)
parseInt(ds) ==
  IF ds = <<>> THEN 0
  ELSE 10 * parseInt(SubSeq(ds, 1, Len(ds) - 1)) + DigitVal(ds[Len(ds)])

NoMatch == -1

\* line.match(/^@@ -(\d+),?\d* \+(\d+),?\d* @@/): the value of group 2 as a
\* number, or NoMatch.  The pattern is not anchored at its end.
HunkTail(line, b0, b1) ==
  IF \E b3 \in {SkipDigits(line, IF At(line, b1) = "," THEN b1 + 1 ELSE b1)} :
       /\ b1 > b0
       /\ At(line, b3) = " " /\ At(line, b3 + 1) = "@" /\ At(line, b3 + 2) = "@"
  THEN parseInt(SubSeq(line, b0, b1 - 1))
  ELSE NoMatch

HunkNew(line, a3) ==
  IF At(line, a3) = " " /\ At(line, a3 + 1) = "+"
  THEN CHOOSE v \in {HunkTail(line, a3 + 2, b1) : b1 \in {SkipDigits(line, a3 + 2)}} : TRUE
  ELSE NoMatch

HunkOld(line, a1) ==
  IF a1 > 5
  THEN CHOOSE v \in {HunkNew(line, a3) :
                       a3 \in {SkipDigits(line, IF At(line, a1) = "," THEN a1 + 1 ELSE a1)}} : TRUE
  ELSE NoMatch

hunkMatch(line) ==
  IF StartsWith(line, <<"@", "@", " ", "-">>)
  THEN CHOOSE v \in {HunkOld(l, a1) : l \in {line}, a1 \in {SkipDigits(line, 5)}} : TRUE
  ELSE NoMatch

\* String.prototype.includes
Includes(line, needle) ==
  \E i \in 1..(Len(line) - Len(needle) + 1) :
    SubSeq(line, i, i + Len(needle) - 1) = needle

\* !text.trim(): the text holds nothing but white space (spaces and the
\* newlines between its lines)
IsBlankText(lines) ==
  \A i \in 1..Len(lines) : \A j \in 1..Len(lines[i]) : lines[i][j] = " "

\* !text: the text is the empty string, '' (one empty line)
IsEmptyText(lines) == lines = << <<>> >>

(***************************************************************************)
(* diffUtils.js: parsePatchesForComments                                   *)
(***************************************************************************)
MapSet(m, k, v) == [x \in DOMAIN m \cup {k} |-> IF x = k THEN v ELSE m[x]]

EmptyMap == [x \in {} |-> 0]

ParseStart ==
  [position |-> 0, newFileLine |-> 0, validPositions |-> {},
   lineToPosition |-> EmptyMap]

\* ParseStep recording as valid the positions of added lines only
ParseStepAddedOnlyValid(st, line) ==
  IF hunkMatch(line) # NoMatch
  THEN [st EXCEPT !.newFileLine = hunkMatch(line)]
  ELSE IF StartsWith(line, <<"+", "+", "+">>) \/ StartsWith(line, <<"-", "-", "-">>)
  THEN st
  ELSE IF StartsWith(line, <<" ">>) \/ StartsWith(line, <<"+">>)
  THEN [position |-> st.position + 1,
        newFileLine |-> st.newFileLine + 1,
        validPositions |-> IF StartsWith(line, <<"+">>)
                           THEN st.validPositions \cup {st.position + 1}
                           ELSE st.validPositions,
        lineToPosition |-> MapSet(st.lineToPosition, st.newFileLine, st.position + 1)]
  ELSE [st EXCEPT !.position = st.position + 1]

\* ParseStep keeping the first position recorded for a new-file line
ParseStepFirstWins(st, line) ==
  IF hunkMatch(line) # NoMatch
  THEN [st EXCEPT !.newFileLine = hunkMatch(line)]
  ELSE IF StartsWith(line, <<"+", "+", "+">>) \/ StartsWith(line, <<"-", "-", "-">>)
  THEN st
  ELSE IF StartsWith(line, <<" ">>) \/ StartsWith(line, <<"+">>)
  THEN [position |-> st.position + 1,
        newFileLine |-> st.newFileLine + 1,
        validPositions |-> st.validPositions \cup {st.position + 1},
        lineToPosition |-> IF st.newFileLine \in DOMAIN st.lineToPosition
                           THEN st.lineToPosition
                           ELSE MapSet(st.lineToPosition, st.newFileLine, st.position + 1)]
  ELSE [st EXCEPT !.position = st.position + 1]

\* ParseStep starting the count of positions again at every hunk header
ParseStepResetAtHeader(st, line) ==
  IF hunkMatch(line) # NoMatch
  THEN [st EXCEPT !.newFileLine = hunkMatch(line), !.position = 0]
  ELSE IF StartsWith(line, <<"+", "+", "+">>) \/ StartsWith(line, <<"-", "-", "-">>)
  THEN st
  ELSE IF StartsWith(line, <<" ">>) \/ StartsWith(line, <<"+">>)
  THEN [position |-> st.position + 1,
        newFileLine |-> st.newFileLine + 1,
        validPositions |-> st.validPositions \cup {st.position + 1},
        lineToPosition |-> MapSet(st.lineToPosition, st.newFileLine, st.position + 1)]
  ELSE [st EXCEPT !.position = st.position + 1]

\* one pass of the loop over the lines of a patch
ParseStep(st, line) ==
  IF hunkMatch(line) # NoMatch
  THEN [st EXCEPT !.newFileLine = hunkMatch(line)]
  ELSE IF StartsWith(line, <<"+", "+", "+">>) \/ StartsWith(line, <<"-", "-", "-">>)
  THEN st
  ELSE IF StartsWith(line, <<" ">>) \/ StartsWith(line, <<"+">>)
  THEN [position |-> st.position + 1,
        newFileLine |-> st.newFileLine + 1,
        validPositions |-> st.validPositions \cup {st.position + 1},
        lineToPosition |-> MapSet(st.lineToPosition, st.newFileLine, st.position + 1)]
  ELSE [st EXCEPT !.position = st.position + 1]

\* the loop state after the first n lines
RECURSIVE ParseLines(_, _)
ParseLines(lines, n) ==
  IF n = 0 THEN ParseStart
  ELSE CHOOSE next \in {ParseStep(st, line) : st \in {ParseLines(lines, n - 1)},
                                               line \in {lines[n]}} : TRUE

ParsePatch(lines) ==
  LET st == ParseLines(lines, Len(lines))
  IN [validPositions |-> st.validPositions, lineToPosition |-> st.lineToPosition]

\* byPath after the first n files
RECURSIVE ParseFiles(_, _)
ParseFiles(fs, n) ==
  IF n = 0 THEN [p \in {} |-> 0]
  ELSE IF IsBlankText(fs[n].patch) THEN ParseFiles(fs, n - 1)
  ELSE MapSet(ParseFiles(fs, n - 1), fs[n].filename, ParsePatch(fs[n].patch))

parsePatchesForComments(fs) == ParseFiles(fs, Len(fs))

(***************************************************************************)
(* diffUtils.js: commentsToPositions                                       *)
(***************************************************************************)
\* whether the loop pushes an output for comment c
Resolves(c, pm) ==
  /\ c.path \in DOMAIN pm
  /\ c.line \in DOMAIN pm[c.path].lineToPosition
  /\ pm[c.path].lineToPosition[c.line] \in pm[c.path].validPositions

\* commentsToPositions with a break in place of its continue: the loop stops
\* at the first comment that does not resolve
RECURSIVE commentsToPositionsBreak(_, _)
commentsToPositionsBreak(cs, pm) ==
  IF cs = <<>> THEN <<>>
  ELSE LET c == Head(cs)
       IN IF Resolves(c, pm)
          THEN <<[path |-> c.path,
                  position |-> pm[c.path].lineToPosition[c.line],
                  body |-> c.body]>> \o commentsToPositionsBreak(Tail(cs), pm)
          ELSE <<>>

\* commentsToPositions with unshift in place of push: the output is in
\* reverse order
RECURSIVE commentsToPositionsUnshift(_, _)
commentsToPositionsUnshift(cs, pm) ==
  IF cs = <<>> THEN <<>>
  ELSE LET c == Head(cs)
           rest == commentsToPositionsUnshift(Tail(cs), pm)
       IN IF Resolves(c, pm)
          THEN rest \o <<[path |-> c.path,
                          position |-> pm[c.path].lineToPosition[c.line],
                          body |-> c.body]>>
          ELSE rest

RECURSIVE commentsToPositions(_, _)
commentsToPositions(cs, pm) ==
  IF cs = <<>> THEN <<>>
  ELSE LET c == Head(cs)
           rest == commentsToPositions(Tail(cs), pm)
       IN IF Resolves(c, pm)
          THEN <<[path |-> c.path,
                  position |-> pm[c.path].lineToPosition[c.line],
                  body |-> c.body]>> \o rest
          ELSE rest

(***************************************************************************)
(* reviewEngine.js: the rule-based analyzer                                *)
(***************************************************************************)
ConsoleLog == <<"c", "o", "n", "s", "o", "l", "e", ".", "l", "o", "g">>

\* InferState counting the context lines of the hunk as well
RECURSIVE InferStateWithContext(_, _)
InferStateWithContext(lines, n) ==
  IF n = 0 THEN [newStart |-> 1, addedInHunk |-> 0]
  ELSE LET st == InferStateWithContext(lines, n - 1)
       IN IF hunkMatch(lines[n]) # NoMatch
          THEN [newStart |-> hunkMatch(lines[n]), addedInHunk |-> 0]
          ELSE IF \/ StartsWith(lines[n], <<"+">>) /\ ~StartsWith(lines[n], <<"+", "+", "+">>)
                  \/ StartsWith(lines[n], <<" ">>)
          THEN [st EXCEPT !.addedInHunk = st.addedInHunk + 1]
          ELSE st

\* the loop state of inferLineNumber after lines 1..n
RECURSIVE InferState(_, _)
InferState(lines, n) ==
  IF n = 0 THEN [newStart |-> 1, addedInHunk |-> 0]
  ELSE LET st == InferState(lines, n - 1)
       IN IF hunkMatch(lines[n]) # NoMatch
          THEN [newStart |-> hunkMatch(lines[n]), addedInHunk |-> 0]
          ELSE IF StartsWith(lines[n], <<"+">>) /\ ~StartsWith(lines[n], <<"+", "+", "+">>)
          THEN [st EXCEPT !.addedInHunk = st.addedInHunk + 1]
          ELSE st

\* currentIndex counts from 1 here (lines[currentIndex] is the flagged line)
inferLineNumber(lines, currentIndex) ==
  LET st == InferState(lines, currentIndex)
  IN st.newStart + st.addedInHunk - 1

RuleCommentBody ==
  <<"Consider removing console.log before merging.",
    "Suggested prompt for Cursor/AI:",
    "Replace this console.log with a proper logger or remove it for production.">>
RuleBodyIssues == "MergeMonk found potential issues. Please check the comments below."
RuleBodyClean == "MergeMonk reviewed this PR. No automated issues detected."

Flagged(line) == StartsWith(line, <<"+">>) /\ Includes(line, ConsoleLog)

\* the comments pushed for lines 1..n of one file
RECURSIVE FileRuleComments(_, _, _)
FileRuleComments(filename, lines, n) ==
  IF n = 0 THEN <<>>
  ELSE FileRuleComments(filename, lines, n - 1) \o
       (IF Flagged(lines[n])
        THEN <<[path |-> filename, line |-> inferLineNumber(lines, n),
                body |-> RuleCommentBody]>>
        ELSE <<>>)

\* the comments pushed for files 1..n
RECURSIVE RuleComments(_, _)
RuleComments(fs, n) ==
  IF n = 0 THEN <<>>
  ELSE RuleComments(fs, n - 1) \o
       (IF IsEmptyText(fs[n].patch) THEN <<>>
        ELSE FileRuleComments(fs[n].filename, fs[n].patch, Len(fs[n].patch)))

runReview(fs) ==
  LET cs == RuleComments(fs, Len(fs))
  IN [body |-> IF cs # <<>> THEN << <<RuleBodyIssues>> >> ELSE << <<RuleBodyClean>> >>,
      comments |-> cs]

(***************************************************************************)
(* State.                                                                  *)
(***************************************************************************)
VARIABLES
  pc,                \* where the running call stands
  env,               \* process.env: which settings are present
  req,               \* the webhook request being handled
  responses,         \* the HTTP responses sent for it, in order
  calls,             \* the remote calls issued so far, in order
  fetch,             \* the two reads of FETCH: [get, list]
  pr,                \* pulls.get data
  files,             \* pulls.listFiles data: <<[filename, patch]>>
  aiOut,             \* what the completion call gave
  comments,          \* LogicalComments of the analysis stage
  body,              \* the review body of the analysis stage
  filePatches,       \* the FilePatch list handed to createPatchPullRequest
  patchMap,          \* parsePatchesForComments(files)
  positionComments,  \* commentsToPositions(comments, patchMap)
  cp,                \* the createPatchPullRequest call: [stage, caller, k, i, result]
  contentMap,        \* getFileContentsAtRef: path -> content
  treeEntries,       \* the staged tree entries
  truncated,         \* what truncatePatches returned
  client,            \* db.js: the module's client
  db,                \* db.js: the module's db
  clients,           \* the MongoClients created so far, each with its state
  dbCalls            \* the connectDB and closeDB calls made so far

vars == <<pc, env, req, responses, calls, fetch, pr, files, aiOut, comments, body,
          filePatches, patchMap, positionComments, cp, contentMap, treeEntries,
          truncated, client, db, clients, dbCalls>>

\* what neither the webhook pipeline nor the diff functions touch
moduleVars == <<truncated, client, db, clients, dbCalls>>

pipelineVars == <<env, req, responses, calls, fetch, pr, aiOut, filePatches, cp,
                  contentMap, treeEntries, moduleVars>>

Null == "null"

\* db.js: the null of client and of db; a client is its number among the
\* MongoClients created, a database handle the number of its client
NoClient == 0
NoDb == 0

\* the values of the variables a call has not set
NoEnv ==
  [APP_ID |-> FALSE, PRIVATE_KEY |-> FALSE, OPENAI_API_KEY |-> FALSE,
   MERGEMONK_REQUEST_CHANGES |-> "", MERGEMONK_CREATE_PATCH_PR |-> "", db |-> FALSE,
   MERGEMONK_MAX_PATCH_CHARS_PER_FILE |-> <<>>, MERGEMONK_MAX_TOTAL_PATCH_CHARS |-> <<>>,
   MONGODB_URI |-> <<>>]
NoRequest == [event |-> "", action |-> "", installationId |-> FALSE, authorized |-> FALSE]
NoFetch == [get |-> "none", list |-> "none"]
NoPr == [number |-> 0, title |-> "", body |-> "", head |-> [repo |-> [present |-> FALSE, full_name |-> <<>>, owner_login |-> "", name |-> ""], ref |-> "", sha |-> <<>>]]
NoAiOut == [kind |-> "none", parsed |-> <<>>]
NoCall ==
  [stage |-> "none", caller |-> "none", k |-> 0, i |-> 0,
   result |-> [kind |-> "none", pullRequestUrl |-> <<>>, branch |-> <<>>]]

(***************************************************************************)
(* Inputs of the diff functions: lines, diff texts, comments.              *)
(***************************************************************************)
HunkA == <<"@", "@", " ", "-", "1", ",", "2", " ", "+", "1", ",", "3", " ", "@", "@">>
HunkB == <<"@", "@", " ", "-", "2", " ", "+", "3", " ", "@", "@">>
CtxLine == <<" ", "c">>
AddLine == <<"+", "a">>
DelLine == <<"-", "d">>
\* an added line whose content is "++i"
PlusPlusLine == <<"+", "+", "+", "i">>
\* a removed line whose content is "--d"
MinusMinusLine == <<"-", "-", "-", "d">>
\* a line of a git diff ahead of the first hunk header ("diff --git ...")
DiffGitLine == <<"d", "i", "f", "f">>
LogLine == <<"+">> \o ConsoleLog
NoLine == <<>>

Vocabulary ==
  {HunkA, HunkB, CtxLine, AddLine, DelLine, PlusPlusLine, MinusMinusLine, DiffGitLine,
   LogLine, NoLine}

\* the diff of spec section 8.1: "@@ -1,2 +1,3 @@\n context1\n+added1\n context2\n"
ExampleDiff == <<HunkA, CtxLine, AddLine, CtxLine, NoLine>>

\* a diff of two hunks whose new-file ranges overlap: both start at line 3
TwoHunkDiff == <<HunkB, AddLine, HunkB, CtxLine>>

\* a hunk with two context lines ahead of an added console.log line
LogAfterContextDiff == <<HunkA, CtxLine, CtxLine, LogLine>>

\* a hunk with a context line ahead of the added line "++console.log"
PlusPlusLogDiff == <<HunkA, CtxLine, <<"+", "+">> \o LogLine>>

SeqsUpTo(S, n) == UNION {[1..k -> S] : k \in 0..n}

DiffTexts ==
  (SeqsUpTo(Vocabulary, MaxLines) \ {<<>>})
    \cup {ExampleDiff, TwoHunkDiff, LogAfterContextDiff, PlusPlusLogDiff}

PathA == "a.js"
PathB == "b.js"

CommentPool ==
  {[path |-> PathA, line |-> l, body |-> <<"note">>] : l \in {1, 2}}
    \cup {[path |-> PathA, line |-> 3, body |-> <<"nit">>],
          [path |-> PathB, line |-> 1, body |-> <<"note">>]}

CommentLists == SeqsUpTo(CommentPool, MaxComments)

(***************************************************************************)
(* The diff functions called on their own.                                 *)
(***************************************************************************)
InitDiff ==
  /\ pc = "diff_start"
  /\ files \in {<<[filename |-> PathA, patch |-> t]>> : t \in DiffTexts}
  /\ comments = <<>>
  /\ body = <<>>
  /\ patchMap = [p \in {} |-> 0]
  /\ positionComments = <<>>
  /\ env = NoEnv
  /\ req = NoRequest
  /\ responses = <<>>
  /\ calls = <<>>
  /\ fetch = NoFetch
  /\ pr = NoPr
  /\ aiOut = NoAiOut
  /\ filePatches = <<>>
  /\ cp = NoCall
  /\ contentMap = EmptyMap
  /\ treeEntries = <<>>
  /\ truncated = <<>>
  /\ client = NoClient
  /\ db = NoDb
  /\ clients = <<>>
  /\ dbCalls = <<>>

CallParsePatches ==
  /\ pc = "diff_start"
  /\ patchMap' = parsePatchesForComments(files)
  /\ pc' = "diff_parsed"
  /\ UNCHANGED <<files, comments, body, positionComments>>
  /\ UNCHANGED pipelineVars

CallCommentsToPositions ==
  /\ pc = "diff_parsed"
  /\ \E cs \in CommentLists :
       /\ comments' = cs
       /\ positionComments' = commentsToPositions(cs, patchMap)
  /\ pc' = "diff_resolved"
  /\ UNCHANGED <<files, body, patchMap>>
  /\ UNCHANGED pipelineVars

\* runReview(files) once the files have been indexed
CallRunReview ==
  /\ pc = "diff_parsed"
  /\ \E result \in {runReview(files)} :
       /\ comments' = result.comments
       /\ body' = result.body
  /\ pc' = "diff_reviewed"
  /\ UNCHANGED <<files, patchMap, positionComments>>
  /\ UNCHANGED pipelineVars

NextDiff == CallParsePatches \/ CallCommentsToPositions \/ CallRunReview

SpecDiff == InitDiff /\ [][NextDiff]_vars

(***************************************************************************)
(* patchPrService.js: inputs                                               *)
(***************************************************************************)
Owner == "o"
Repo == "r"

\* `${owner}/${repo}` is modelled as the pair of its parts
FullName(owner, repo) == <<owner, repo>>

HeadSha == <<"a", "b", "c", "1", "2", "3", "4", "5", "6">>

\* pr.head.repo: null for a deleted fork; full_name is <<>> when absent
SameRepo ==
  [present |-> TRUE, full_name |-> <<FullName("o", "r")>>, owner_login |-> "o", name |-> "r"]
SameRepoNoFullName ==
  [present |-> TRUE, full_name |-> <<>>, owner_login |-> "o", name |-> "r"]
ForkRepo ==
  [present |-> TRUE, full_name |-> <<FullName("fork", "r")>>, owner_login |-> "fork", name |-> "r"]
ForkRepoNoFullName ==
  [present |-> TRUE, full_name |-> <<>>, owner_login |-> "fork", name |-> "r"]
NullRepo ==
  [present |-> FALSE, full_name |-> <<>>, owner_login |-> "", name |-> ""]

Heads ==
  {[repo |-> rp, ref |-> "feature", sha |-> HeadSha] :
     rp \in {SameRepo, SameRepoNoFullName, ForkRepo, ForkRepoNoFullName, NullRepo}}
  \cup {[repo |-> SameRepo, ref |-> "", sha |-> HeadSha],
        [repo |-> SameRepo, ref |-> "feature", sha |-> <<>>]}

PullRequests == {[number |-> 7, title |-> "t", body |-> "b", head |-> h] : h \in Heads}

\* A FilePatch's unified diff, by what the code and the patch library read of
\* it: whether it is blank (nothing but white space), the content its hunks
\* expect (old) and the content they produce (new).
BlankPatch == [blank |-> TRUE, old |-> "", new |-> ""]
PatchV1 == [blank |-> FALSE, old |-> "v1", new |-> "v2"]
StalePatch == [blank |-> FALSE, old |-> "v0", new |-> "v2"]

FilePatchPool ==
  {[path |-> q, patch |-> d] : q \in {PathA, PathB}, d \in {BlankPatch, PatchV1, StalePatch}}

FilePatchLists == SeqsUpTo(FilePatchPool, MaxPatches)

\* what repos.getContent gives for one path: it throws, or its data is an
\* array (a directory), or a file object [encoding, content]
Base64(text) == <<"base64", text>>
ContentOutcomes ==
  {[kind |-> "throws", encoding |-> "", content |-> <<>>],
   [kind |-> "directory", encoding |-> "", content |-> <<>>],
   [kind |-> "file", encoding |-> "base64", content |-> Base64("v1")],
   [kind |-> "file", encoding |-> "none", content |-> <<>>]}

(***************************************************************************)
(* patchPrService.js: helpers                                              *)
(***************************************************************************)
\* Buffer.from(content, 'base64').toString('utf-8')
DecodeBase64(content) == content[2]

\* the value getFileContentsAtRef stores for a file object
StoredContent(data) ==
  IF data.encoding = "base64" /\ data.content # <<>>
  THEN DecodeBase64(data.content)
  ELSE ""

\* applyPatch of the diff package: the patched text, or false when the hunks
\* do not fit the content
ApplyFalse == "false"
applyPatch(content, patch) == IF content = patch.old THEN patch.new ELSE ApplyFalse

\* applyPatchToContent handing on what applyPatch gave, false included
applyPatchToContentRaw(content, patchStr) ==
  IF patchStr.blank THEN Null
  ELSE applyPatch(content, patchStr)

applyPatchToContent(content, patchStr) ==
  IF patchStr.blank THEN Null
  ELSE LET out == applyPatch(content, patchStr)
       IN IF out # ApplyFalse THEN out ELSE Null

\* [...new Set(xs)]: first occurrences, in order
RECURSIVE Dedupe(_)
Dedupe(xs) ==
  IF xs = <<>> THEN <<>>
  ELSE LET init == Dedupe(SubSeq(xs, 1, Len(xs) - 1))
           x == xs[Len(xs)]
       IN IF \E j \in 1..Len(init) : init[j] = x THEN init ELSE Append(init, x)

PathsOf(fps) == Dedupe([j \in 1..Len(fps) |-> fps[j].path])

\* the loop over filePatches reaches createBlob for entry fp
Stages(fp, cm) ==
  /\ fp.path \in DOMAIN cm
  /\ applyPatchToContent(cm[fp.path], fp.patch) # Null

\* the first index from i on whose entry reaches createBlob, Len(fps)+1 if none
RECURSIVE NextStaged(_, _, _)
NextStaged(fps, cm, i) ==
  IF i > Len(fps) THEN i
  ELSE IF Stages(fps[i], cm) THEN i
  ELSE NextStaged(fps, cm, i + 1)

headRepoFull(headRepo) ==
  IF headRepo.full_name # <<>> THEN headRepo.full_name[1]
  ELSE FullName(headRepo.owner_login, headRepo.name)

PATCH_BRANCH_PREFIX == "mergemonk/patches-"
Slice7(sha) == SubSeq(sha, 1, IF Len(sha) < 7 THEN Len(sha) ELSE 7)
BranchName(p) == <<PATCH_BRANCH_PREFIX, p.number, Slice7(p.head.sha)>>

\* what the remote gives back: content-addressed names
BlobSha(content) == <<"blob", content>>
BaseTreeSha(sha) == <<"tree-of", sha>>
TreeSha(base, entries) == <<"tree", base, entries>>
CommitSha(tree, parents) == <<"commit", tree, parents>>
HtmlUrl(branch) == <<"pull-url", branch>>

\* a remote call in the log: pending until it ends, then ok or failed; data
\* is <<>> or what the model keeps of the data the call resolved with
Call(api, arg) == [api |-> api, arg |-> arg, status |-> "pending", data |-> <<>>]

LastIndex(log, api) ==
  CHOOSE i \in 1..Len(log) : log[i].api = api /\ \A j \in (i + 1)..Len(log) : log[j].api # api

\* the log once the pending call of `api` has ended
Settle(log, api, ok) ==
  [log EXCEPT ![LastIndex(log, api)].status = IF ok THEN "ok" ELSE "failed"]

\* the log once the pending repos.getContent has thrown or resolved with data
SettleContent(log, data) ==
  IF data.kind = "throws"
  THEN Settle(log, "repos.getContent", FALSE)
  ELSE [Settle(log, "repos.getContent", TRUE)
          EXCEPT ![LastIndex(log, "repos.getContent")].data = <<data.kind>>]

NullResult == [kind |-> "null", pullRequestUrl |-> <<>>, branch |-> <<>>]
ErrorResult == [kind |-> "error", pullRequestUrl |-> <<>>, branch |-> <<>>]

(***************************************************************************)
(* patchPrService.js: createPatchPullRequest                               *)
(***************************************************************************)
OkResponse == [status |-> 200, body |-> "ok"]

\* The call ends: it returns result, or throws (ErrorResult).  Its caller
\* goes on: a direct caller has the result; reviewPullRequest posts the link
\* comment when the result has a pull request URL, catches what is thrown,
\* and resolves either way, and handleWebhook answers 200.  The awaited
\* issues.createComment cannot change that outcome (a failure is caught).
Finish(result, log, cm, te) ==
  /\ cp' = [cp EXCEPT !.stage = IF result.kind = "error" THEN "thrown" ELSE "returned",
                      !.result = result]
  /\ contentMap' = cm
  /\ treeEntries' = te
  /\ pc' = "done"
  /\ IF cp.caller = "review"
     THEN /\ calls' = IF result.pullRequestUrl # <<>>
                      THEN Append(log, Call("issues.createComment", result))
                      ELSE log
          /\ responses' = Append(responses, OkResponse)
     ELSE /\ calls' = log
          /\ responses' = responses
  /\ UNCHANGED <<env, req, fetch, pr, files, aiOut, comments, body, filePatches,
                 patchMap, positionComments>>
  /\ UNCHANGED moduleVars

\* The call issues a remote call and waits for it.
Await(log, stage, k, i, call, cm, te) ==
  /\ cp' = [cp EXCEPT !.stage = stage, !.k = k, !.i = i]
  /\ calls' = Append(log, call)
  /\ contentMap' = cm
  /\ treeEntries' = te
  /\ UNCHANGED <<pc, env, req, responses, fetch, pr, files, aiOut, comments, body,
                 filePatches, patchMap, positionComments>>
  /\ UNCHANGED moduleVars

BlobCall(fp, cm) ==
  Call("git.createBlob", [path |-> fp.path,
                          content |-> applyPatchToContent(cm[fp.path], fp.patch)])

\* StageFrom without the return of null for an empty treeEntries
StageFromNoEmptyCheck(log, i, cm, te) ==
  LET j == NextStaged(filePatches, cm, i)
  IN IF j <= Len(filePatches)
     THEN Await(log, "createBlob", cp.k, j, BlobCall(filePatches[j], cm), cm, te)
     ELSE Await(log, "getCommit", cp.k, j,
                Call("git.getCommit", [commit_sha |-> pr.head.sha]), cm, te)

\* the loop over filePatches from entry i on, up to its next createBlob or,
\* past its end, to the return of null or to getCommit
StageFrom(log, i, cm, te) ==
  LET j == NextStaged(filePatches, cm, i)
  IN IF j <= Len(filePatches)
     THEN Await(log, "createBlob", cp.k, j, BlobCall(filePatches[j], cm), cm, te)
     ELSE IF Len(te) = 0
     THEN Finish(NullResult, log, cm, te)
     ELSE Await(log, "getCommit", cp.k, j,
                Call("git.getCommit", [commit_sha |-> pr.head.sha]), cm, te)

\* EarlyExit without the comparison of the head repository's full name
EarlyExitNoForkCheck(p, fps) ==
  \/ Len(fps) = 0
  \/ ~p.head.repo.present \/ p.head.ref = "" \/ p.head.sha = <<>>

\* createPatchPullRequest up to its first remote call; the caller has set
\* cp.caller, pr and filePatches
EarlyExit(p, fps) ==
  \/ Len(fps) = 0
  \/ ~p.head.repo.present \/ p.head.ref = "" \/ p.head.sha = <<>>
  \/ headRepoFull(p.head.repo) # FullName(Owner, Repo)

\* createPatchPullRequest(octokit, owner, repo, p, fps) is called by `caller`
\* and runs up to its first remote call; log and sent are the caller's calls
\* and responses so far
Enter(caller, p, fps, log, sent) ==
  IF EarlyExit(p, fps)
  THEN /\ cp' = [cp EXCEPT !.stage = "returned", !.caller = caller, !.result = NullResult]
       /\ pc' = "done"
       /\ calls' = log
       /\ responses' = IF caller = "review" THEN Append(sent, OkResponse) ELSE sent
  ELSE /\ cp' = [cp EXCEPT !.stage = "getContent", !.caller = caller, !.k = 1]
       /\ pc' = "patch_pr"
       /\ calls' = Append(log, Call("repos.getContent",
                            [path |-> PathsOf(fps)[1], ref |-> p.head.sha]))
       /\ responses' = sent

\* a direct call of the exported function
InvokeCreatePatchPullRequest ==
  /\ pc = "idle"
  /\ \E p \in PullRequests, fps \in FilePatchLists :
       /\ pr' = p
       /\ filePatches' = fps
       /\ Enter("direct", p, fps, calls, responses)
  /\ UNCHANGED <<env, req, fetch, files, aiOut, comments, body,
                 patchMap, positionComments, contentMap, treeEntries>>
  /\ UNCHANGED moduleVars

\* GetContentReturns without the try around repos.getContent: what the call
\* throws ends createPatchPullRequest
GetContentReturnsUncaught ==
  /\ cp.stage = "getContent"
  /\ \E data \in ContentOutcomes :
       LET paths == PathsOf(filePatches)
           log == SettleContent(calls, data)
           cm == IF data.kind = "file"
                 THEN MapSet(contentMap, paths[cp.k], StoredContent(data))
                 ELSE contentMap
       IN IF data.kind = "throws"
          THEN Finish(ErrorResult, log, cm, treeEntries)
          ELSE IF cp.k < Len(paths)
          THEN Await(log, "getContent", cp.k + 1, cp.i,
                     Call("repos.getContent", [path |-> paths[cp.k + 1], ref |-> pr.head.sha]),
                     cm, treeEntries)
          ELSE IF DOMAIN cm = {}
          THEN Finish(NullResult, log, cm, treeEntries)
          ELSE StageFrom(log, 1, cm, treeEntries)

\* getFileContentsAtRef: the awaited repos.getContent of paths[cp.k] ends;
\* the loop goes on to the next path or, past the last, createPatchPullRequest
\* returns null on an empty contentMap or enters its loop over filePatches
GetContentReturns ==
  /\ cp.stage = "getContent"
  /\ \E data \in ContentOutcomes :
       LET paths == PathsOf(filePatches)
           log == SettleContent(calls, data)
           cm == IF data.kind = "file"
                 THEN MapSet(contentMap, paths[cp.k], StoredContent(data))
                 ELSE contentMap
       IN IF cp.k < Len(paths)
          THEN Await(log, "getContent", cp.k + 1, cp.i,
                     Call("repos.getContent", [path |-> paths[cp.k + 1], ref |-> pr.head.sha]),
                     cm, treeEntries)
          ELSE IF DOMAIN cm = {}
          THEN Finish(NullResult, log, cm, treeEntries)
          ELSE StageFrom(log, 1, cm, treeEntries)

CreateBlobReturns ==
  /\ cp.stage = "createBlob"
  /\ \E ok \in BOOLEAN :
       IF ok
       THEN LET fp == filePatches[cp.i]
                entry == [path |-> fp.path, mode |-> "100644", type |-> "blob",
                          sha |-> BlobSha(applyPatchToContent(contentMap[fp.path], fp.patch))]
            IN StageFrom(Settle(calls, "git.createBlob", TRUE), cp.i + 1, contentMap,
                         Append(treeEntries, entry))
       ELSE Finish(ErrorResult, Settle(calls, "git.createBlob", FALSE), contentMap, treeEntries)

GetCommitReturns ==
  /\ cp.stage = "getCommit"
  /\ \E ok \in BOOLEAN :
       IF ok
       THEN Await(Settle(calls, "git.getCommit", TRUE), "createTree", cp.k, cp.i,
                  Call("git.createTree", [base_tree |-> BaseTreeSha(pr.head.sha),
                                          tree |-> treeEntries]),
                  contentMap, treeEntries)
       ELSE Finish(ErrorResult, Settle(calls, "git.getCommit", FALSE), contentMap, treeEntries)

NewTreeSha == TreeSha(BaseTreeSha(pr.head.sha), treeEntries)
NewCommitSha == CommitSha(NewTreeSha, <<pr.head.sha>>)

CreateTreeReturns ==
  /\ cp.stage = "createTree"
  /\ \E ok \in BOOLEAN :
       IF ok
       THEN Await(Settle(calls, "git.createTree", TRUE), "createCommit", cp.k, cp.i,
                  Call("git.createCommit", [message |-> <<"MergeMonk: suggested patches for #", pr.number>>,
                                            tree |-> NewTreeSha,
                                            parents |-> <<pr.head.sha>>]),
                  contentMap, treeEntries)
       ELSE Finish(ErrorResult, Settle(calls, "git.createTree", FALSE), contentMap, treeEntries)

\* CreateCommitReturns going on to createRef whether or not the commit was
\* created
CreateCommitReturnsUnchecked ==
  /\ cp.stage = "createCommit"
  /\ \E ok \in BOOLEAN :
       Await(Settle(calls, "git.createCommit", ok), "createRef", cp.k, cp.i,
             Call("git.createRef", [ref |-> <<"refs/heads/", BranchName(pr)>>,
                                    sha |-> NewCommitSha]),
             contentMap, treeEntries)

CreateCommitReturns ==
  /\ cp.stage = "createCommit"
  /\ \E ok \in BOOLEAN :
       IF ok
       THEN Await(Settle(calls, "git.createCommit", TRUE), "createRef", cp.k, cp.i,
                  Call("git.createRef", [ref |-> <<"refs/heads/", BranchName(pr)>>,
                                         sha |-> NewCommitSha]),
                  contentMap, treeEntries)
       ELSE Finish(ErrorResult, Settle(calls, "git.createCommit", FALSE), contentMap, treeEntries)

CreateRefReturns ==
  /\ cp.stage = "createRef"
  /\ \E ok \in BOOLEAN :
       IF ok
       THEN Await(Settle(calls, "git.createRef", TRUE), "pulls.create", cp.k, cp.i,
                  Call("pulls.create", [title |-> <<"MergeMonk suggested patches for #", pr.number>>,
                                        head |-> BranchName(pr),
                                        base |-> pr.head.ref]),
                  contentMap, treeEntries)
       ELSE Finish(ErrorResult, Settle(calls, "git.createRef", FALSE), contentMap, treeEntries)

\* PullsCreateReturns with a catch around pulls.create: the branch is
\* returned whether or not the pull request was opened
PullsCreateReturnsCaught ==
  /\ cp.stage = "pulls.create"
  /\ \E ok \in BOOLEAN :
       Finish([kind |-> "value", pullRequestUrl |-> <<HtmlUrl(BranchName(pr))>>,
               branch |-> <<BranchName(pr)>>],
              Settle(calls, "pulls.create", ok), contentMap, treeEntries)

PullsCreateReturns ==
  /\ cp.stage = "pulls.create"
  /\ \E ok \in BOOLEAN :
       IF ok
       THEN Finish([kind |-> "value", pullRequestUrl |-> <<HtmlUrl(BranchName(pr))>>,
                    branch |-> <<BranchName(pr)>>],
                   Settle(calls, "pulls.create", TRUE), contentMap, treeEntries)
       ELSE Finish(ErrorResult, Settle(calls, "pulls.create", FALSE), contentMap, treeEntries)

PatchPrStep ==
  \/ GetContentReturns
  \/ CreateBlobReturns
  \/ GetCommitReturns
  \/ CreateTreeReturns
  \/ CreateCommitReturns
  \/ CreateRefReturns
  \/ PullsCreateReturns

(***************************************************************************)
(* openaiService.js (getAIReview) and reviewEngine.js (runAIReview)        *)
(***************************************************************************)
\* An optional JSON field is <<>> (absent) or <<value>>.
OrElse(field, default) == IF field # <<>> THEN field[1] ELSE default

\* String.prototype.trim on the strings of the model
Trim(str) == IF str = " " THEN "" ELSE str

RawComment1 ==
  [path |-> <<PathA>>, line |-> <<2>>, body |-> <<"ai note">>, suggestedPrompt |-> <<"fix it">>]
RawComment2 ==
  [path |-> <<PathA>>, line |-> <<>>, body |-> <<>>, suggestedPrompt |-> <<" ">>]
RawComment3 ==
  [path |-> <<PathB>>, line |-> <<1>>, body |-> <<"other">>, suggestedPrompt |-> <<>>]

AiFilePatch == [path |-> PathA, patch |-> PatchV1]

\* the parsed JSON object of the completion
ParsedFull ==
  [summary |-> <<"S">>, qualityRating |-> <<8>>, qualityRatingReason |-> <<"R">>,
   securityAssessment |-> <<"sec">>, systemDesignAssessment |-> <<>>,
   scalabilityAssessment |-> <<>>, reviewBody |-> <<"B">>,
   comments |-> [isArray |-> TRUE, items |-> <<RawComment1, RawComment2, RawComment3>>],
   filePatches |-> <<AiFilePatch>>]
ParsedNoPatches == [ParsedFull EXCEPT !.filePatches = <<>>]
ParsedBare ==
  [summary |-> <<>>, qualityRating |-> <<>>, qualityRatingReason |-> <<>>,
   securityAssessment |-> <<>>, systemDesignAssessment |-> <<>>,
   scalabilityAssessment |-> <<>>, reviewBody |-> <<>>,
   comments |-> [isArray |-> FALSE, items |-> <<>>],
   filePatches |-> <<>>]

\* what openai.chat.completions.create gives: it throws (timeout, quota), its
\* content is empty, is no JSON, is JSON null, or is a JSON object
AiOutcomes ==
  {[kind |-> k, parsed |-> ParsedBare] : k \in {"throws", "empty", "unparsable", "not_object"}}
  \cup {[kind |-> "json", parsed |-> q] : q \in {ParsedFull, ParsedNoPatches, ParsedBare}}

\* getAIReviewThrows without the throw for an empty content
getAIReviewThrowsNoEmptyCheck(out) == out.kind \notin {"json", "empty"}

\* getAIReview throws: the call threw, 'Empty response from OpenAI',
\* JSON.parse threw, or parsed.comments was read of null
getAIReviewThrows(out) == out.kind # "json"

getAIReviewComment(c) ==
  [path |-> OrElse(c.path, ""), line |-> OrElse(c.line, 1), body |-> OrElse(c.body, ""),
   suggestedPrompt |-> Trim(OrElse(c.suggestedPrompt, ""))]

\* the object getAIReview returns for a parsed JSON object
getAIReview(parsed) ==
  [summary |-> OrElse(parsed.summary, ""),
   qualityRating |-> OrElse(parsed.qualityRating, 5),
   qualityRatingReason |-> OrElse(parsed.qualityRatingReason, ""),
   securityAssessment |-> OrElse(parsed.securityAssessment, ""),
   systemDesignAssessment |-> OrElse(parsed.systemDesignAssessment, ""),
   scalabilityAssessment |-> OrElse(parsed.scalabilityAssessment, ""),
   reviewBody |-> OrElse(parsed.reviewBody, ""),
   comments |-> IF parsed.comments.isArray
                THEN [j \in 1..Len(parsed.comments.items) |->
                        getAIReviewComment(parsed.comments.items[j])]
                ELSE <<>>]

\* A text is the sequence of its pieces, '' the empty sequence; a body is
\* the sequence of its lines (join('\n')).
Text(str) == IF str = "" THEN <<>> ELSE <<str>>

RatingText(r) == IF r = 5 THEN "5" ELSE "8"

NonEmpty(section) == section # <<>>

runAIReviewComment(c) ==
  [path |-> c.path, line |-> c.line,
   body |-> Text(c.body) \o
            (IF Trim(c.suggestedPrompt) # ""
             THEN <<"Suggested prompt for Cursor/AI:", Trim(c.suggestedPrompt)>>
             ELSE <<>>)]

\* the object runAIReview returns for getAIReview's result
runAIReview(result) ==
  [body |-> SelectSeq(
      << <<"## MergeMonk AI Review">>, <<>>,
         <<"### Summary">>, Text(result.summary), <<>>,
         <<"### Code quality rating: ", RatingText(result.qualityRating), "/10">>,
         IF result.qualityRatingReason # "" THEN <<"*", result.qualityRatingReason, "*">> ELSE <<>>,
         <<>>,
         <<"### Security">>,
         IF result.securityAssessment # "" THEN <<result.securityAssessment>> ELSE <<"_No assessment._">>,
         <<>>,
         <<"### System design">>,
         IF result.systemDesignAssessment # "" THEN <<result.systemDesignAssessment>> ELSE <<"_No assessment._">>,
         <<>>,
         <<"### Scalability">>,
         IF result.scalabilityAssessment # "" THEN <<result.scalabilityAssessment>> ELSE <<"_No assessment._">>,
         <<>>, <<"---">>, <<>>,
         <<"### Overall">>, Text(result.reviewBody) >>,
      NonEmpty),
   comments |-> [j \in 1..Len(result.comments) |-> runAIReviewComment(result.comments[j])]]

\* result.filePatches || [] of reviewPullRequest, for the object runAIReview
\* returns
ResultFilePatches(result) ==
  IF "filePatches" \in DOMAIN result THEN result.filePatches ELSE <<>>

(***************************************************************************)
(* webhook.js (handleWebhook) and prService.js (reviewPullRequest): inputs *)
(***************************************************************************)
\* process.env: which settings the process was started with
Envs ==
  [APP_ID : BOOLEAN, PRIVATE_KEY : BOOLEAN, OPENAI_API_KEY : BOOLEAN,
   MERGEMONK_REQUEST_CHANGES : {"", "false", "true", "0"},
   MERGEMONK_CREATE_PATCH_PR : {"", "false"},
   db : BOOLEAN,
   MERGEMONK_MAX_PATCH_CHARS_PER_FILE : {<<>>}, MERGEMONK_MAX_TOTAL_PATCH_CHARS : {<<>>},
   MONGODB_URI : {<<>>}]

\* a request: its x-github-event header ("" when missing), payload.action,
\* whether payload.installation.id is there, and whether the active_users
\* document of that installation has authorized: true
Requests ==
  [event : {"", "push"}, action : {"opened"}, installationId : {TRUE},
   authorized : {TRUE}]
  \cup [event : {"installation"}, action : {"created", "deleted"}, installationId : BOOLEAN,
        authorized : {TRUE}]
  \cup [event : {"pull_request"}, action : {"opened", "synchronize", "closed"},
        installationId : BOOLEAN, authorized : BOOLEAN]

SUPPORTED_PR_ACTIONS == {"opened", "synchronize"}

\* auth.js: isInstallationAuthorized, for the installation of request r; no
\* caller in webhook.js
isInstallationAuthorized(e, r) == IF ~e.db THEN TRUE ELSE r.authorized

\* what pulls.get and pulls.listFiles give when they succeed
FetchedPullRequests ==
  {[number |-> 7, title |-> "t", body |-> "b", head |-> h] :
     h \in {[repo |-> SameRepo, ref |-> "feature", sha |-> HeadSha],
            [repo |-> ForkRepo, ref |-> "feature", sha |-> HeadSha]}}

FileLists ==
  {<<[filename |-> PathA, patch |-> ExampleDiff]>>,
   <<[filename |-> PathA, patch |-> <<HunkA, LogLine, CtxLine>>],
     [filename |-> PathB, patch |-> <<NoLine>>]>>,
   <<[filename |-> PathB, patch |-> <<HunkB, DelLine, LogLine, LogLine>>]>>}

Response(status, text) == [status |-> status, body |-> text]

(***************************************************************************)
(* prService.js: reviewPullRequest                                         *)
(***************************************************************************)
\* ReviewEvent with the switch read as opt-in
ReviewEventOptIn(e) == IF e.MERGEMONK_REQUEST_CHANGES = "true" THEN "REQUEST_CHANGES" ELSE "COMMENT"

\* requestChanges and event of reviewPullRequest
ReviewEvent(e) == IF e.MERGEMONK_REQUEST_CHANGES # "false" THEN "REQUEST_CHANGES" ELSE "COMMENT"

\* Review with the comments field always set
ReviewAlwaysComments(e, b, pcs) ==
  [pull_number |-> 7, event |-> ReviewEvent(e), body |-> b, comments |-> <<pcs>>]

\* the review object handed to pulls.createReview; comments is <<>> when
\* the field is left out
Review(e, b, pcs) ==
  [pull_number |-> 7, event |-> ReviewEvent(e), body |-> b,
   comments |-> IF Len(pcs) > 0 THEN <<pcs>> ELSE <<>>]

\* reviewPullRequest from the analysis result on, up to the awaited
\* pulls.createReview
PostReview(result, fs, log) ==
  \E r \in {result}, pm \in {parsePatchesForComments(fs)} :
    \E pcs \in {commentsToPositions(r.comments, pm)} :
      /\ body' = r.body
      /\ comments' = r.comments
      /\ filePatches' = ResultFilePatches(r)
      /\ patchMap' = pm
      /\ positionComments' = pcs
      /\ calls' = Append(log, Call("pulls.createReview", Review(env, r.body, pcs)))
      /\ pc' = "post"

\* reviewPullRequest once both reads of FETCH have succeeded
Analyze(fs, log) ==
  IF env.OPENAI_API_KEY
  THEN /\ calls' = Append(log, Call("openai.chat.completions.create", [files |-> fs]))
       /\ pc' = "analyze"
       /\ UNCHANGED <<body, comments, filePatches, patchMap, positionComments>>
  ELSE PostReview(runReview(fs), fs, log)

\* ReviewFailed with the error swallowed: the request is answered 200
ReviewFailedAnswersOk ==
  /\ pc' = "done"
  /\ responses' = Append(responses, OkResponse)

\* ReviewFailed with the rejection left unhandled: no answer is sent
ReviewFailedUnanswered == UNCHANGED <<pc, responses>>

\* reviewPullRequest rejects: handleWebhook catches and answers 500
ReviewFailed ==
  /\ pc' = "done"
  /\ responses' = Append(responses, Response(500, "Review failed"))

\* PullsGetReturns going on to the analysis without waiting for
\* pulls.listFiles
PullsGetReturnsNoWait ==
  /\ fetch.get = "pending"
  /\ \E ok \in BOOLEAN :
       IF ok
       THEN \E p \in FetchedPullRequests :
              /\ fetch' = [fetch EXCEPT !.get = "ok"]
              /\ pr' = p
              /\ IF pc = "fetch"
                 THEN Analyze(files, Settle(calls, "pulls.get", TRUE)) /\ UNCHANGED responses
                 ELSE /\ calls' = Settle(calls, "pulls.get", TRUE)
                      /\ UNCHANGED <<pc, responses, body, comments, filePatches,
                                     patchMap, positionComments>>
       ELSE /\ fetch' = [fetch EXCEPT !.get = "failed"]
            /\ calls' = Settle(calls, "pulls.get", FALSE)
            /\ IF pc = "fetch" THEN ReviewFailed ELSE UNCHANGED <<pc, responses>>
            /\ UNCHANGED <<pr, body, comments, filePatches, patchMap, positionComments>>
  /\ UNCHANGED <<env, req, files, aiOut, cp, contentMap, treeEntries>>
  /\ UNCHANGED moduleVars

PullsGetReturns ==
  /\ fetch.get = "pending"
  /\ \E ok \in BOOLEAN :
       IF ok
       THEN \E p \in FetchedPullRequests :
              /\ fetch' = [fetch EXCEPT !.get = "ok"]
              /\ pr' = p
              /\ IF pc = "fetch" /\ fetch.list = "ok"
                 THEN Analyze(files, Settle(calls, "pulls.get", TRUE)) /\ UNCHANGED responses
                 ELSE /\ calls' = Settle(calls, "pulls.get", TRUE)
                      /\ UNCHANGED <<pc, responses, body, comments, filePatches,
                                     patchMap, positionComments>>
       ELSE /\ fetch' = [fetch EXCEPT !.get = "failed"]
            /\ calls' = Settle(calls, "pulls.get", FALSE)
            /\ IF pc = "fetch" THEN ReviewFailed ELSE UNCHANGED <<pc, responses>>
            /\ UNCHANGED <<pr, body, comments, filePatches, patchMap, positionComments>>
  /\ UNCHANGED <<env, req, files, aiOut, cp, contentMap, treeEntries>>
  /\ UNCHANGED moduleVars

ListFilesReturns ==
  /\ fetch.list = "pending"
  /\ \E ok \in BOOLEAN :
       IF ok
       THEN \E fs \in FileLists :
              /\ fetch' = [fetch EXCEPT !.list = "ok"]
              /\ files' = fs
              /\ IF pc = "fetch" /\ fetch.get = "ok"
                 THEN Analyze(fs, Settle(calls, "pulls.listFiles", TRUE)) /\ UNCHANGED responses
                 ELSE /\ calls' = Settle(calls, "pulls.listFiles", TRUE)
                      /\ UNCHANGED <<pc, responses, body, comments, filePatches,
                                     patchMap, positionComments>>
       ELSE /\ fetch' = [fetch EXCEPT !.list = "failed"]
            /\ calls' = Settle(calls, "pulls.listFiles", FALSE)
            /\ IF pc = "fetch" THEN ReviewFailed ELSE UNCHANGED <<pc, responses>>
            /\ UNCHANGED <<files, body, comments, filePatches, patchMap,
                           positionComments>>
  /\ UNCHANGED <<env, req, pr, aiOut, cp, contentMap, treeEntries>>
  /\ UNCHANGED moduleVars

\* OpenAIReturns with a catch that keeps the body of the rule-based analyzer
\* but not its comments
OpenAIReturnsBodyOnly ==
  /\ pc = "analyze"
  /\ \E out \in AiOutcomes :
       /\ aiOut' = out
       /\ LET log == Settle(calls, "openai.chat.completions.create", out.kind # "throws")
          IN IF getAIReviewThrows(out)
             THEN PostReview([body |-> runReview(files).body, comments |-> <<>>], files, log)
             ELSE PostReview(runAIReview(getAIReview(out.parsed)), files, log)
  /\ UNCHANGED <<env, req, responses, fetch, pr, files, cp, contentMap, treeEntries>>
  /\ UNCHANGED moduleVars

\* the completion call ends: runAIReview returns, or it throws and the
\* catch runs the rule-based analyzer
OpenAIReturns ==
  /\ pc = "analyze"
  /\ \E out \in AiOutcomes :
       /\ aiOut' = out
       /\ LET log == Settle(calls, "openai.chat.completions.create", out.kind # "throws")
          IN IF getAIReviewThrows(out)
             THEN PostReview(runReview(files), files, log)
             ELSE PostReview(runAIReview(getAIReview(out.parsed)), files, log)
  /\ UNCHANGED <<env, req, responses, fetch, pr, files, cp, contentMap, treeEntries>>
  /\ UNCHANGED moduleVars

\* pulls.createReview ends; on success the patch pull request is built when
\* there are file patches and the feature is not switched off
CreateReviewReturns ==
  /\ pc = "post"
  /\ \E ok \in BOOLEAN :
       IF ~ok
       THEN /\ ReviewFailed
            /\ calls' = Settle(calls, "pulls.createReview", FALSE)
            /\ UNCHANGED cp
       ELSE IF Len(filePatches) > 0 /\ env.MERGEMONK_CREATE_PATCH_PR # "false"
       THEN Enter("review", pr, filePatches, Settle(calls, "pulls.createReview", TRUE), responses)
       ELSE /\ pc' = "done"
            /\ responses' = Append(responses, OkResponse)
            /\ calls' = Settle(calls, "pulls.createReview", TRUE)
            /\ UNCHANGED cp
  /\ UNCHANGED <<env, req, fetch, pr, files, aiOut, comments, body, filePatches,
                 patchMap, positionComments, contentMap, treeEntries>>
  /\ UNCHANGED moduleVars

(***************************************************************************)
(* webhook.js: handleWebhook, and the route of server.js that calls it     *)
(***************************************************************************)
\* Ignores with the test of the action left out
IgnoresEventOnly(r) == r.event # "pull_request"

\* handleWebhook answers 200 'Ignored': not a pull_request event, or an
\* action that is not supported
Ignores(r) == r.event # "pull_request" \/ r.action \notin SUPPORTED_PR_ACTIONS

\* AppConfigured with the test of the private key left out
AppConfiguredIdOnly(e) == e.APP_ID

\* handleWebhook: appId and privateKey are both set
AppConfigured(e) == e.APP_ID /\ e.PRIVATE_KEY

\* handleInstallation returns before its database write
InstallationSkips(r, e) == r.action # "created" \/ ~r.installationId \/ ~e.db

\* A request arrives and handleWebhook runs up to its first awaited call.
\* The settings of the process are fixed from here on.
Receive ==
  /\ pc = "idle"
  /\ \E e \in Envs, r \in Requests :
       /\ env' = e
       /\ req' = r
       /\ IF r.event = ""
          THEN /\ responses' = Append(responses, Response(400, "Missing x-github-event header"))
               /\ pc' = "done"
               /\ UNCHANGED <<calls, fetch>>
          ELSE IF r.event = "installation"
          THEN IF InstallationSkips(r, e)
               THEN /\ responses' = Append(responses, OkResponse)
                    /\ pc' = "done"
                    /\ UNCHANGED <<calls, fetch>>
               ELSE /\ calls' = Append(calls, Call("db.updateOne", [installationId |-> TRUE]))
                    /\ pc' = "db_write"
                    /\ UNCHANGED <<responses, fetch>>
          ELSE IF Ignores(r)
          THEN /\ responses' = Append(responses, Response(200, "Ignored"))
               /\ pc' = "done"
               /\ UNCHANGED <<calls, fetch>>
          ELSE IF ~r.installationId
          THEN /\ responses' = Append(responses, Response(400, "Missing installation id"))
               /\ pc' = "done"
               /\ UNCHANGED <<calls, fetch>>
          ELSE IF ~AppConfigured(e)
          THEN /\ responses' = Append(responses, Response(500, "App not configured"))
               /\ pc' = "done"
               /\ UNCHANGED <<calls, fetch>>
          ELSE /\ calls' = calls \o <<Call("pulls.get", [pull_number |-> 7]),
                                      Call("pulls.listFiles", [pull_number |-> 7])>>
               /\ fetch' = [get |-> "pending", list |-> "pending"]
               /\ pc' = "fetch"
               /\ UNCHANGED responses
  /\ UNCHANGED <<pr, files, aiOut, comments, body, filePatches, patchMap,
                 positionComments, cp, contentMap, treeEntries>>
  /\ UNCHANGED moduleVars

\* DbWriteReturns without the catch of the route: a failed write leaves the
\* request unanswered
DbWriteReturnsUncaught ==
  /\ pc = "db_write"
  /\ \E ok \in BOOLEAN :
       /\ responses' = IF ok THEN Append(responses, OkResponse) ELSE responses
       /\ calls' = Settle(calls, "db.updateOne", ok)
  /\ pc' = "done"
  /\ UNCHANGED <<env, req, fetch, pr, files, aiOut, comments, body, filePatches,
                 patchMap, positionComments, cp, contentMap, treeEntries>>
  /\ UNCHANGED moduleVars

\* the write of handleInstallation ends: 200, or it throws, handleWebhook
\* rejects and the route answers 500 as no response was sent
DbWriteReturns ==
  /\ pc = "db_write"
  /\ \E ok \in BOOLEAN :
       /\ responses' = Append(responses,
                         IF ok THEN OkResponse ELSE Response(500, "Internal error"))
       /\ calls' = Settle(calls, "db.updateOne", ok)
  /\ pc' = "done"
  /\ UNCHANGED <<env, req, fetch, pr, files, aiOut, comments, body, filePatches,
                 patchMap, positionComments, cp, contentMap, treeEntries>>
  /\ UNCHANGED moduleVars

ServerStep ==
  \/ Receive
  \/ DbWriteReturns
  \/ PullsGetReturns
  \/ ListFilesReturns
  \/ OpenAIReturns
  \/ CreateReviewReturns

InitIdle ==
  /\ pc = "idle"
  /\ files = <<>>
  /\ comments = <<>>
  /\ body = <<>>
  /\ patchMap = [p \in {} |-> 0]
  /\ positionComments = <<>>
  /\ env = NoEnv
  /\ req = NoRequest
  /\ responses = <<>>
  /\ calls = <<>>
  /\ fetch = NoFetch
  /\ pr = NoPr
  /\ aiOut = NoAiOut
  /\ filePatches = <<>>
  /\ cp = NoCall
  /\ contentMap = EmptyMap
  /\ treeEntries = <<>>
  /\ truncated = <<>>
  /\ client = NoClient
  /\ db = NoDb
  /\ clients = <<>>
  /\ dbCalls = <<>>

Next == ServerStep \/ InvokeCreatePatchPullRequest \/ PatchPrStep

Spec == InitIdle /\ [][Next]_vars

(***************************************************************************)
(* openaiService.js: truncatePatches                                       *)
(***************************************************************************)
DEFAULT_MAX_PATCH_CHARS_PER_FILE == 3500
DEFAULT_MAX_TOTAL_PATCH_CHARS == 58000

\* '\n... (truncated)'
TruncationMarker ==
  <<"\n", ".", ".", ".", " ", "(", "t", "r", "u", "n", "c", "a", "t", "e", "d", ")">>

\* Number(process.env.X) || DEFAULT: a setting is <<>> (unset) or <<n>>
NumberOr(setting, default) ==
  IF setting # <<>> /\ setting[1] # 0 THEN setting[1] ELSE default

\* String.prototype.trim on a text of characters
RECURSIVE TrimText(_)
TrimText(t) ==
  IF t = <<>> THEN t
  ELSE IF Head(t) = " " THEN TrimText(Tail(t))
  ELSE IF t[Len(t)] = " " THEN TrimText(SubSeq(t, 1, Len(t) - 1))
  ELSE t

\* t.slice(0, n) for n >= 0
Slice(t, n) == SubSeq(t, 1, IF n < Len(t) THEN n ELSE Len(t))

\* one pass of the loop of truncatePatches; done is set by the break
TruncateStep(st, f, maxPerFile, maxTotal) ==
  LET patch == TrimText(f.patch)
      remaining == maxTotal - st.total
      cut1 == IF Len(patch) > maxPerFile
              THEN Slice(patch, maxPerFile) \o TruncationMarker
              ELSE patch
      cut2 == IF Len(cut1) > remaining
              THEN Slice(cut1, remaining) \o TruncationMarker
              ELSE cut1
  IN IF st.done \/ patch = <<>> THEN st
     ELSE IF remaining <= 0 THEN [st EXCEPT !.done = TRUE]
     ELSE [total |-> st.total + Len(cut2),
           out |-> Append(st.out, [filename |-> f.filename, patch |-> cut2]),
           done |-> FALSE]

RECURSIVE TruncateLoop(_, _, _, _)
TruncateLoop(fs, n, maxPerFile, maxTotal) ==
  IF n = 0 THEN [total |-> 0, out |-> <<>>, done |-> FALSE]
  ELSE TruncateStep(TruncateLoop(fs, n - 1, maxPerFile, maxTotal), fs[n], maxPerFile, maxTotal)

truncatePatches(fs, e) ==
  TruncateLoop(fs, Len(fs),
               NumberOr(e.MERGEMONK_MAX_PATCH_CHARS_PER_FILE, DEFAULT_MAX_PATCH_CHARS_PER_FILE),
               NumberOr(e.MERGEMONK_MAX_TOTAL_PATCH_CHARS, DEFAULT_MAX_TOTAL_PATCH_CHARS)).out

\* inputs: patch texts of up to MaxChars characters, with and without white
\* space at their end, in lists of up to MaxFiles files named by their place
Xs(k) == [j \in 1..k |-> "x"]

PatchTexts == {Xs(k) : k \in 0..MaxChars} \cup {Append(Xs(k), " ") : k \in 0..MaxChars}

PatchFileLists ==
  UNION {{[j \in 1..k |-> [filename |-> j, patch |-> t[j]]] : t \in [1..k -> PatchTexts]} :
           k \in 0..MaxFiles}

\* the two settings: unset, 0 or a small number of characters
CharSettings == {<<>>, <<0>>, <<2>>, <<MaxChars>>}

TruncateEnvs ==
  {[NoEnv EXCEPT !.MERGEMONK_MAX_PATCH_CHARS_PER_FILE = a,
                 !.MERGEMONK_MAX_TOTAL_PATCH_CHARS = b] :
     a \in CharSettings, b \in CharSettings}

InitTruncate ==
  /\ pc = "truncate_start"
  /\ files \in PatchFileLists
  /\ env \in TruncateEnvs
  /\ comments = <<>>
  /\ body = <<>>
  /\ patchMap = [p \in {} |-> 0]
  /\ positionComments = <<>>
  /\ req = NoRequest
  /\ responses = <<>>
  /\ calls = <<>>
  /\ fetch = NoFetch
  /\ pr = NoPr
  /\ aiOut = NoAiOut
  /\ filePatches = <<>>
  /\ cp = NoCall
  /\ contentMap = EmptyMap
  /\ treeEntries = <<>>
  /\ truncated = <<>>
  /\ client = NoClient
  /\ db = NoDb
  /\ clients = <<>>
  /\ dbCalls = <<>>

CallTruncatePatches ==
  /\ pc = "truncate_start"
  /\ truncated' = truncatePatches(files, env)
  /\ pc' = "truncate_done"
  /\ UNCHANGED <<env, req, responses, calls, fetch, pr, files, aiOut, comments, body,
                 filePatches, patchMap, positionComments, cp, contentMap, treeEntries,
                 client, db, clients, dbCalls>>

NextTruncate == CallTruncatePatches

SpecTruncate == InitTruncate /\ [][NextTruncate]_vars

(***************************************************************************)
(* Claims about truncatePatches (checked under SpecTruncate).              *)
(***************************************************************************)
MaxPerFile ==
  NumberOr(env.MERGEMONK_MAX_PATCH_CHARS_PER_FILE, DEFAULT_MAX_PATCH_CHARS_PER_FILE)

MaxTotal ==
  NumberOr(env.MERGEMONK_MAX_TOTAL_PATCH_CHARS, DEFAULT_MAX_TOTAL_PATCH_CHARS)

HasPatch(f) == TrimText(f.patch) # <<>>

\* the files with a non-empty patch, in their order
WithPatch == SelectSeq(files, HasPatch)

\* the sum of the lengths of the patch texts of a list of files
RECURSIVE PatchChars(_)
PatchChars(fs) ==
  IF fs = <<>> THEN 0 ELSE Len(TrimText(Head(fs).patch)) + PatchChars(Tail(fs))

\* the sum of the lengths of the included texts
RECURSIVE IncludedChars(_)
IncludedChars(out) ==
  IF out = <<>> THEN 0 ELSE Len(Head(out).patch) + IncludedChars(Tail(out))

EndsWithMarker(t) ==
  /\ Len(t) >= Len(TruncationMarker)
  /\ SubSeq(t, Len(t) - Len(TruncationMarker) + 1, Len(t)) = TruncationMarker

\* the included files are the first ones of the files with a patch
IncludedIsPrefix ==
  /\ Len(truncated) <= Len(WithPatch)
  /\ \A j \in 1..Len(truncated) : truncated[j].filename = WithPatch[j].filename

\* an included text that is not the whole patch ends with the marker
CutIsMarked ==
  \A j \in 1..Len(truncated) :
    truncated[j].patch # TrimText(WithPatch[j].patch) => EndsWithMarker(truncated[j].patch)

\* C14 (as claimed): when the patches together are longer than the total
\* budget, the included files are a prefix of the files with a non-empty
\* patch, the included texts together are no longer than the total budget,
\* and a text that was cut carries the truncation marker.
C14_TotalWithinBudget ==
  (pc = "truncate_done" /\ PatchChars(files) > MaxTotal) =>
    /\ IncludedIsPrefix
    /\ IncludedChars(truncated) <= MaxTotal
    /\ CutIsMarked

\* C14: of three files with a patch only the first two are included, the
\* second one cut
C14_PrefixReached ==
  /\ pc = "truncate_done"
  /\ Len(WithPatch) = 3
  /\ Len(truncated) = 2
  /\ truncated[1].patch = WithPatch[1].patch
  /\ EndsWithMarker(truncated[2].patch)

\* C15 (as claimed): every included text is at most max-characters-per-file
\* long, and the cut to the remaining total budget is made on the text the
\* per-file cut has left.
C15_PerFileWithinLimit ==
  pc = "truncate_done" =>
    \A j \in 1..Len(truncated) :
      LET patch == TrimText(WithPatch[j].patch)
          perFile == IF Len(patch) > MaxPerFile
                     THEN Slice(patch, MaxPerFile) \o TruncationMarker
                     ELSE patch
          remaining == MaxTotal - IncludedChars(SubSeq(truncated, 1, j - 1))
      IN /\ Len(truncated[j].patch) <= MaxPerFile
         /\ truncated[j].patch \in {perFile, Slice(perFile, remaining) \o TruncationMarker}

\* C15: a patch longer than the per-file limit has been cut to it
C15_PerFileCutReached ==
  /\ pc = "truncate_done"
  /\ Len(files) = 1
  /\ Len(files[1].patch) > MaxPerFile
  /\ truncated[1].patch = Slice(files[1].patch, MaxPerFile) \o TruncationMarker

(***************************************************************************)
(* Claims about createPatchPullRequest, reviewPullRequest and              *)
(* handleWebhook (checked under Spec).                                     *)
(***************************************************************************)
CallsOf(api) == {j \in 1..Len(calls) : calls[j].api = api}

Invoked(api) == CallsOf(api) # {}

Succeeded(api) == \E j \in CallsOf(api) : calls[j].status = "ok"

Failed(api) == \E j \in CallsOf(api) : calls[j].status = "failed"

IsFork(p) == p.head.repo \in {ForkRepo, ForkRepoNoFullName}

\* the patch of fp fits the content fetched for its path
Applies(fp) ==
  /\ fp.path \in DOMAIN contentMap
  /\ ~fp.patch.blank
  /\ contentMap[fp.path] = fp.patch.old

\* content was fetched for the path of fp and its patch does not fit it
FailsToApply(fp) == fp.path \in DOMAIN contentMap /\ ~Applies(fp)

\* C1: when the head repository of the PR is a fork, createPatchPullRequest
\* returns null and never invokes createBlob, createTree, createCommit,
\* createRef or pulls.create.
C1_ForkReturnsNull ==
  (cp.caller # "none" /\ IsFork(pr)) =>
    /\ cp.stage = "returned"
    /\ cp.result = NullResult
    /\ \A api \in {"git.createBlob", "git.createTree", "git.createCommit",
                    "git.createRef", "pulls.create"} : ~Invoked(api)

\* C1 witness: the call has returned for a fork whose full name is built from
\* owner.login and name, with two file patches that would apply
C1_Witness ==
  /\ cp.caller = "direct"
  /\ cp.stage = "returned"
  /\ pr.head.repo = ForkRepoNoFullName
  /\ Len(filePatches) = 2
  /\ \A j \in 1..2 : filePatches[j].patch = PatchV1

\* C2: once the contents are fetched, if no FilePatch applies (its patch does
\* not fit, or its path has no fetched content), createPatchPullRequest
\* returns null and createTree, createCommit, createRef and pulls.create are
\* never invoked.
C2_NoneAppliesReturnsNull ==
  (/\ cp.caller # "none"
   /\ cp.stage # "getContent"
   /\ \A j \in 1..Len(filePatches) : ~Applies(filePatches[j])) =>
    /\ cp.stage = "returned"
    /\ cp.result = NullResult
    /\ \A api \in {"git.createTree", "git.createCommit", "git.createRef", "pulls.create"} :
         ~Invoked(api)

\* C2 witness: content was fetched for both paths, neither of the two
\* patches fits it, and the call has returned
C2_Witness ==
  /\ cp.stage = "returned"
  /\ Len(filePatches) = 2
  /\ DOMAIN contentMap = {PathA, PathB}
  /\ \A j \in 1..2 : FailsToApply(filePatches[j]) /\ ~filePatches[j].patch.blank
  /\ Succeeded("repos.getContent")

\* C3: a FilePatch that does not fit its fetched content makes patch
\* application give null, nothing is thrown for it (the call throws only
\* when a remote call failed), that entry alone is skipped, and once the loop
\* is over the staged tree entries are those of the FilePatches that apply,
\* in order.
C3_FailedPatchSkipped ==
  /\ \A j \in 1..Len(filePatches) :
       FailsToApply(filePatches[j]) =>
         applyPatchToContent(contentMap[filePatches[j].path], filePatches[j].patch) = Null
  /\ cp.stage = "thrown" => \E j \in 1..Len(calls) : calls[j].status = "failed"
  /\ cp.i = Len(filePatches) + 1 =>
       LET applied == SelectSeq(filePatches, Applies)
       IN /\ Len(treeEntries) = Len(applied)
          /\ \A j \in 1..Len(applied) :
               /\ treeEntries[j].path = applied[j].path
               /\ treeEntries[j].sha = BlobSha(applied[j].patch.new)

\* C3 witness: of two FilePatches with fetched content the first does not fit
\* and the second is staged
C3_Witness ==
  /\ cp.stage = "getCommit"
  /\ Len(filePatches) = 2
  /\ FailsToApply(filePatches[1])
  /\ filePatches[1].patch = StalePatch
  /\ Applies(filePatches[2])
  /\ Len(treeEntries) = 1
  /\ treeEntries[1].path = filePatches[2].path

AiFailureKinds == {"throws", "empty", "unparsable", "not_object"}

\* a file of the list has an added line with console.log
HasConsoleLog(fs) ==
  \E j \in 1..Len(fs) : \E n \in 1..Len(fs[j].patch) :
    /\ StartsWith(fs[j].patch[n], <<"+">>)
    /\ Includes(fs[j].patch[n], ConsoleLog)

\* C4: with OPENAI_API_KEY set, when the completion call throws or its
\* content is empty or not the JSON of an object, reviewPullRequest goes on
\* to POST: exactly one review is submitted, with the body and the resolved
\* comments of the rule-based analyzer for the same files, and the request is
\* answered 500 only if that createReview call failed.
C4_AiFailureFallsBack ==
  (env.OPENAI_API_KEY /\ aiOut.kind \in AiFailureKinds) =>
    /\ pc \in {"post", "done"}
    /\ Cardinality(CallsOf("pulls.createReview")) = 1
    /\ \A j \in CallsOf("pulls.createReview") :
         /\ calls[j].arg.body =
              IF HasConsoleLog(files) THEN << <<RuleBodyIssues>> >> ELSE << <<RuleBodyClean>> >>
         /\ calls[j].arg.comments =
              LET pcs == commentsToPositions(runReview(files).comments,
                                             parsePatchesForComments(files))
              IN IF Len(pcs) > 0 THEN <<pcs>> ELSE <<>>
         /\ \A n \in 1..Len(calls[j].arg.comments) : \A m \in 1..Len(calls[j].arg.comments[n]) :
              calls[j].arg.comments[n][m].body = RuleCommentBody
    /\ pc = "done" =>
         IF Failed("pulls.createReview")
         THEN responses = <<Response(500, "Review failed")>>
         ELSE responses = <<OkResponse>>

\* C4 witness: the content of the completion was empty and the review with
\* the rule-based comment was posted
C4_Witness ==
  /\ pc = "done"
  /\ env.OPENAI_API_KEY
  /\ aiOut.kind = "empty"
  /\ Succeeded("pulls.createReview")
  /\ Len(positionComments) > 0
  /\ responses = <<OkResponse>>

\* C5: when pulls.get, pulls.listFiles or pulls.createReview fails, the one
\* response of the request is 500 'Review failed'; a pull request event that
\* is answered 200 ok has had its review posted.
C5_FetchPostFailuresAreFatal ==
  /\ (Failed("pulls.get") \/ Failed("pulls.listFiles") \/ Failed("pulls.createReview")) =>
       /\ pc = "done"
       /\ responses = <<Response(500, "Review failed")>>
  /\ (req.event = "pull_request" /\ \E j \in 1..Len(responses) : responses[j] = OkResponse) =>
       Succeeded("pulls.createReview")

\* C5 witness: both reads succeeded, createReview failed, answered 500
C5_Witness ==
  /\ Succeeded("pulls.get")
  /\ Succeeded("pulls.listFiles")
  /\ Failed("pulls.createReview")
  /\ responses = <<Response(500, "Review failed")>>

\* C7 (as claimed): when the JSON of the completion holds at least one file
\* patch, MERGEMONK_CREATE_PATCH_PR is not 'false' and the review has been
\* posted, createPatchPullRequest has been called by reviewPullRequest with
\* those file patches.
C7_PatchPrInvoked ==
  (/\ pc = "done"
   /\ aiOut.kind = "json"
   /\ Len(aiOut.parsed.filePatches) > 0
   /\ env.MERGEMONK_CREATE_PATCH_PR # "false"
   /\ Succeeded("pulls.createReview")) =>
    /\ cp.caller = "review"
    /\ filePatches = aiOut.parsed.filePatches

(***************************************************************************)
(* Claims about the diff functions (checked under SpecDiff).               *)
(***************************************************************************)
DiffParsed == pc \in {"diff_parsed", "diff_resolved"}

ThePatch == files[1].patch

HasHunkHeader(lines) == \E i \in 1..Len(lines) : hunkMatch(lines[i]) # NoMatch

\* a line of the new file as the diff format has it: context or added
IsNewFileLine(line) == StartsWith(line, <<" ">>) \/ StartsWith(line, <<"+">>)

\* the body lines of a text that is one hunk header, then context or added
\* lines only, then at most the empty line a trailing newline leaves
BodyCount(lines) ==
  IF lines[Len(lines)] = NoLine THEN Len(lines) - 2 ELSE Len(lines) - 1

IsOneHunkOfNewLines(lines) ==
  /\ Len(lines) >= 2
  /\ hunkMatch(lines[1]) # NoMatch
  /\ BodyCount(lines) >= 1
  /\ \A k \in 1..BodyCount(lines) : IsNewFileLine(lines[k + 1])

\* C8 (as claimed): for one hunk header with new-file start s followed by n
\* context or added lines, the k-th body line has position k, every such
\* position is valid and new-file line s+k-1 maps to k.
C8_OneHunkPositions ==
  (DiffParsed /\ IsOneHunkOfNewLines(ThePatch)) =>
    LET s == hunkMatch(ThePatch[1])
        n == BodyCount(ThePatch)
    IN /\ PathA \in DOMAIN patchMap
       /\ patchMap[PathA].validPositions = 1..n
       /\ patchMap[PathA].lineToPosition = [l \in s..(s + n - 1) |-> l - s + 1]

\* C8, the diff of the example: valid positions {1,2,3}, line 2 -> 2, 3 -> 3
C8_ExampleReached ==
  /\ DiffParsed
  /\ ThePatch = ExampleDiff
  /\ patchMap[PathA].validPositions = {1, 2, 3}
  /\ patchMap[PathA].lineToPosition[2] = 2
  /\ patchMap[PathA].lineToPosition[3] = 3

\* C9 (as claimed): a diff text without any hunk header has an empty set of
\* valid positions and every comment for its path is dropped.
C9_NoHunkNoPositions ==
  (DiffParsed /\ ~HasHunkHeader(ThePatch)) =>
    /\ PathA \in DOMAIN patchMap => patchMap[PathA].validPositions = {}
    /\ pc = "diff_resolved" =>
         \A i \in 1..Len(positionComments) : positionComments[i].path # PathA

\* the line is a deletion line of a hunk: it starts with '-' and a hunk
\* header precedes it
IsDeletionInHunk(lines, n) ==
  /\ StartsWith(lines[n], <<"-">>)
  /\ \E h \in 1..(n - 1) : hunkMatch(lines[h]) # NoMatch

\* C11 (as claimed): every deletion line of a hunk increments the position
\* by one, leaves the new-file line counter as it was, and its position is
\* neither a member of validPositions nor a value of lineToPosition.
C11_DeletionCountsOnly ==
  DiffParsed =>
    \A n \in 1..Len(ThePatch) :
      IsDeletionInHunk(ThePatch, n) =>
        LET before == ParseLines(ThePatch, n - 1)
            after == ParseLines(ThePatch, n)
            index == patchMap[PathA]
        IN /\ after.position = before.position + 1
           /\ after.newFileLine = before.newFileLine
           /\ after.position \notin index.validPositions
           /\ \A l \in DOMAIN index.lineToPosition :
                index.lineToPosition[l] # after.position

\* C11: a hunk with an ordinary deletion line ahead of a context line has
\* been indexed: position 2 is valid, position 1 is not
C11_DeletionReached ==
  /\ DiffParsed
  /\ ThePatch = <<HunkA, DelLine, CtxLine>>
  /\ patchMap[PathA].validPositions = {2}

\* the index of the first hunk header of the text, 0 when it has none
FirstHeader(lines) ==
  IF HasHunkHeader(lines)
  THEN CHOOSE h \in 1..Len(lines) :
         /\ hunkMatch(lines[h]) # NoMatch
         /\ \A g \in 1..(h - 1) : hunkMatch(lines[g]) = NoMatch
  ELSE 0

\* C12 (as claimed): the line immediately below the first hunk header of a
\* diff text is assigned position 1, whatever precedes that header.
C12_FirstBodyLineIsOne ==
  (/\ DiffParsed
   /\ HasHunkHeader(ThePatch)
   /\ FirstHeader(ThePatch) < Len(ThePatch)
   /\ hunkMatch(ThePatch[FirstHeader(ThePatch) + 1]) = NoMatch) =>
    ParseLines(ThePatch, FirstHeader(ThePatch) + 1).position = 1

\* C12: the hunk header is the first line and the line below it has
\* position 1
C12_HeaderFirstReached ==
  /\ DiffParsed
  /\ ThePatch = <<HunkB, AddLine, CtxLine>>
  /\ patchMap[PathA].lineToPosition[3] = 1

\* The lines of the new file a diff text shows, as the diff format has them:
\* from the first hunk header on, every line that is not a hunk header takes
\* the next position, and a context or added line is the next line of the
\* new file (the later of two lines with one number wins).
RECURSIVE HunkLines(_, _)
HunkLines(lines, n) ==
  IF n = 0
  THEN [seen |-> FALSE, position |-> 0, newFileLine |-> 0, lineToPosition |-> EmptyMap]
  ELSE LET st == HunkLines(lines, n - 1)
       IN IF hunkMatch(lines[n]) # NoMatch
          THEN [st EXCEPT !.seen = TRUE, !.newFileLine = hunkMatch(lines[n])]
          ELSE IF ~st.seen THEN st
          ELSE IF IsNewFileLine(lines[n])
          THEN [seen |-> TRUE,
                position |-> st.position + 1,
                newFileLine |-> st.newFileLine + 1,
                lineToPosition |-> MapSet(st.lineToPosition, st.newFileLine, st.position + 1)]
          ELSE [st EXCEPT !.position = st.position + 1]

\* new-file line -> diff position, for the context and added lines of hunks
InHunk(lines) == HunkLines(lines, Len(lines)).lineToPosition

\* C13 (as claimed): of two comments for the same file, one on a context or
\* added line of a hunk and one on a line outside every hunk, exactly the
\* first is resolved, to the diff position of its line.
C13_OneOfTwoResolved ==
  (/\ pc = "diff_resolved"
   /\ Len(comments) = 2
   /\ \A j \in 1..2 : comments[j].path = PathA
   /\ \E j \in 1..2 : comments[j].line \in DOMAIN InHunk(ThePatch)
   /\ \E j \in 1..2 : comments[j].line \notin DOMAIN InHunk(ThePatch)) =>
    LET c == IF comments[1].line \in DOMAIN InHunk(ThePatch) THEN comments[1] ELSE comments[2]
    IN positionComments =
         <<[path |-> PathA, position |-> InHunk(ThePatch)[c.line], body |-> c.body]>>

\* C13: the second line of a hunk starting at line 1 carries the one
\* resolved comment, the comment on line 3 is outside the hunk
C13_OneOfTwoReached ==
  /\ pc = "diff_resolved"
  /\ ThePatch = <<HunkA, CtxLine, AddLine>>
  /\ Len(comments) = 2
  /\ comments[1].path = PathA /\ comments[1].line = 3
  /\ comments[2].path = PathA /\ comments[2].line = 2
  /\ Len(positionComments) = 1
  /\ positionComments[1].position = 2

\* a comment whose path has an index entry that maps its line
IsMapped(c) ==
  /\ c.path \in DOMAIN patchMap
  /\ c.line \in DOMAIN patchMap[c.path].lineToPosition

RECURSIVE CountMapped(_)
CountMapped(cs) ==
  IF cs = <<>> THEN 0
  ELSE (IF IsMapped(Head(cs)) THEN 1 ELSE 0) + CountMapped(Tail(cs))

\* C10: a comment whose path has no index entry or whose line is unmapped is
\* dropped, every other comment of the same call is resolved: the output
\* holds one comment per mapped input, each for a mapped path and position.
C10_UnknownDropped ==
  pc = "diff_resolved" =>
    /\ Len(positionComments) = CountMapped(comments)
    /\ \A i \in 1..Len(positionComments) :
         /\ positionComments[i].path \in DOMAIN patchMap
         /\ \E j \in 1..Len(comments) :
              /\ IsMapped(comments[j])
              /\ comments[j].path = positionComments[i].path
              /\ patchMap[comments[j].path].lineToPosition[comments[j].line]
                   = positionComments[i].position

\* C10 witness: a comment for a path without index entry is dropped ahead of
\* a comment that resolves
C10_Witness ==
  /\ pc = "diff_resolved"
  /\ Len(comments) = 2
  /\ comments[1].path \notin DOMAIN patchMap
  /\ IsMapped(comments[2])
  /\ Len(positionComments) = 1

(***************************************************************************)
(* Claims about handleWebhook and reviewPullRequest, under Spec.           *)
(***************************************************************************)
\* the request is a pull_request event with a supported action
IsReviewable(r) == r.event = "pull_request" /\ r.action \in {"opened", "synchronize"}

\* the remote calls reviewPullRequest and createPatchPullRequest make
GitHubCalls == {n \in 1..Len(calls) : calls[n].api \notin {"db.updateOne", "openai.chat.completions.create"}}

\* C16: a pull_request webhook (opened or synchronize) whose installation is
\* not authorized is answered 403 and reviewPullRequest is never invoked for
\* it: no remote call is made.  (Stated for a configured app, so that the
\* answer is not the 500 of a missing APP_ID or PRIVATE_KEY.)
C16_UnauthorizedNotReviewed ==
  (pc # "idle" /\ IsReviewable(req) /\ req.installationId
     /\ env.APP_ID /\ env.PRIVATE_KEY
     /\ ~isInstallationAuthorized(env, req))
    => /\ GitHubCalls = {}
       /\ pc = "done" => (Len(responses) = 1 /\ responses[1].status = 403)

\* an unauthorized installation's pull request was reviewed and answered 200
C16_UnauthorizedReviewed ==
  /\ pc = "done" /\ IsReviewable(req) /\ req.installationId
  /\ ~isInstallationAuthorized(env, req)
  /\ Succeeded("pulls.createReview")
  /\ responses = <<OkResponse>>

\* handleWebhook was called with req (and not createPatchPullRequest on its
\* own)
Received == pc # "idle" /\ cp.caller # "direct"

\* the answer to a request that is not reviewable, where the installation
\* event is answered instOk
AnswerUnreviewed(r, instAnswer) ==
  IF r.event = "" THEN Response(400, "Missing x-github-event header")
  ELSE IF r.event = "installation" THEN instAnswer
  ELSE Response(200, "Ignored")

\* reviewPullRequest runs only for reviewable requests, and any other request
\* makes no GitHub call and is answered by AnswerUnreviewed
RoutedAs(instAnswer) ==
  Received =>
    /\ GitHubCalls # {} => IsReviewable(req)
    /\ ~IsReviewable(req) =>
         /\ GitHubCalls = {}
         /\ pc = "done" => responses = <<AnswerUnreviewed(req, instAnswer)>>

\* C17, as stated: reviewPullRequest is invoked only for pull_request events
\* with action opened or synchronize; every other event or action is answered
\* without any GitHub call, 200 'Ignored' or 200 ok for installation, and a
\* request without the event header is answered 400.
C17_OnlySupportedReviewedAlwaysOk == RoutedAs(OkResponse)

\* C17, amended: as above, but an installation event whose active_users write
\* fails is answered 500 'Internal error' by the route, handleWebhook having
\* rejected; every other installation event is answered 200 ok.
C17_OnlySupportedReviewed ==
  RoutedAs(IF Failed("db.updateOne") THEN Response(500, "Internal error") ELSE OkResponse)

\* a pull_request event with an unsupported action was answered 'Ignored'
\* with no call made
C17_ClosedIgnored ==
  /\ pc = "done"
  /\ req.event = "pull_request" /\ req.action = "closed"
  /\ responses = <<Response(200, "Ignored")>>
  /\ calls = <<>>

\* C18: when the client cannot be configured for a reviewable request (APP_ID
\* or PRIVATE_KEY unset, or no installation id in the payload), handleWebhook
\* answers at once with an error, 400 'Missing installation id' when the id
\* is missing and 500 'App not configured' otherwise, and reviewPullRequest
\* is never invoked: no call is made.
C18_UnconfiguredIsAnError ==
  (Received /\ IsReviewable(req)
     /\ (~req.installationId \/ ~env.APP_ID \/ ~env.PRIVATE_KEY))
    => /\ pc = "done"
       /\ calls = <<>>
       /\ fetch = NoFetch
       /\ responses = <<IF ~req.installationId
                        THEN Response(400, "Missing installation id")
                        ELSE Response(500, "App not configured")>>

\* a reviewable request with its installation id and APP_ID, but no
\* PRIVATE_KEY, was answered 500
C18_NoPrivateKeyAnswered ==
  /\ Received /\ IsReviewable(req)
  /\ req.installationId /\ env.APP_ID /\ ~env.PRIVATE_KEY
  /\ responses = <<Response(500, "App not configured")>>

\* C19: the review is posted with event COMMENT if and only if
\* MERGEMONK_REQUEST_CHANGES is the string 'false', and with event
\* REQUEST_CHANGES otherwise, the unset switch included.
C19_EventFollowsSwitch ==
  \A j \in CallsOf("pulls.createReview") :
    /\ calls[j].arg.event \in {"COMMENT", "REQUEST_CHANGES"}
    /\ calls[j].arg.event = "COMMENT" <=> env.MERGEMONK_REQUEST_CHANGES = "false"

\* a review was posted as a comment, the switch being 'false'
C19_CommentPosted ==
  /\ env.MERGEMONK_REQUEST_CHANGES = "false"
  /\ \E j \in CallsOf("pulls.createReview") :
       calls[j].arg.event = "COMMENT" /\ calls[j].status = "ok"

(***************************************************************************)
(* db.js: validateMongoDBUri, connectDB, getDB, closeDB                    *)
(***************************************************************************)
MaxDbCalls == 3

\* a connection string, by what validateMongoDBUri reads of it: whether it
\* is blank once trimmed, whether new URL accepts it, and the protocol,
\* hostname and port of the parsed URL
Uri(blank, parses, protocol, hostname, port) ==
  [blank |-> blank, parses |-> parses, protocol |-> protocol,
   hostname |-> hostname, port |-> port]

MongoUri == Uri(FALSE, TRUE, "mongodb:", TRUE, TRUE)
SrvUri == Uri(FALSE, TRUE, "mongodb+srv:", TRUE, FALSE)
SrvPortUri == Uri(FALSE, TRUE, "mongodb+srv:", TRUE, TRUE)
BlankUri == Uri(TRUE, FALSE, "", FALSE, FALSE)

\* process.env.MONGODB_URI: unset, or a string
UriSettings == {<<>>, <<MongoUri>>, <<SrvUri>>, <<SrvPortUri>>, <<BlankUri>>}

VALID_PROTOCOLS == {"mongodb:", "mongodb+srv:"}

\* the message validateMongoDBUri throws, "ok" when it returns
validateMongoDBUri(u) ==
  IF u.blank THEN "MONGODB_URI must be a non-empty string"
  ELSE IF ~u.parses THEN "MONGODB_URI is not a valid URL"
  ELSE IF u.protocol \notin VALID_PROTOCOLS THEN "MONGODB_URI must use scheme mongodb or mongodb+srv"
  ELSE IF ~u.hostname THEN "MONGODB_URI must include a host"
  ELSE IF u.protocol = "mongodb+srv:" /\ u.port THEN "mongodb+srv URIs must not include a port"
  ELSE "ok"

\* a call of db.js: what was called, where it stands, what it returned and
\* the client it made or is closing
DbCall(op, at, result, mine) == [op |-> op, pc |-> at, result |-> result, mine |-> mine]

dbRest == <<pc, req, responses, calls, fetch, pr, files, aiOut, comments, body,
            filePatches, patchMap, positionComments, cp, contentMap, treeEntries,
            truncated, env>>

\* connectDB up to its await, or to its return when it does not connect
ConnectDBStart ==
  /\ Len(dbCalls) < MaxDbCalls
  /\ IF env.MONGODB_URI = <<>>
     THEN /\ dbCalls' = Append(dbCalls, DbCall("connectDB", "returned", NoDb, NoClient))
          /\ UNCHANGED <<client, db, clients>>
     ELSE IF validateMongoDBUri(env.MONGODB_URI[1]) # "ok"
     THEN /\ dbCalls' = Append(dbCalls, DbCall("connectDB", "thrown", NoDb, NoClient))
          /\ UNCHANGED <<client, db, clients>>
     ELSE IF client # NoClient
     THEN /\ dbCalls' = Append(dbCalls, DbCall("connectDB", "returned", db, NoClient))
          /\ UNCHANGED <<client, db, clients>>
     ELSE /\ clients' = Append(clients, "connecting")
          /\ client' = Len(clients) + 1
          /\ dbCalls' = Append(dbCalls, DbCall("connectDB", "awaiting", NoDb, Len(clients) + 1))
          /\ UNCHANGED db
  /\ UNCHANGED dbRest

\* client.connect() of call k ends.  On success db = client.db() reads the
\* module's client as it is by then: a TypeError when it is null.  On
\* failure the catch sets the module's client to null.
ConnectReturns ==
  /\ \E k \in 1..Len(dbCalls), ok \in BOOLEAN :
       /\ dbCalls[k].op = "connectDB" /\ dbCalls[k].pc = "awaiting"
       /\ IF ~ok
          THEN /\ clients' = [clients EXCEPT ![dbCalls[k].mine] = "failed"]
               /\ client' = NoClient
               /\ dbCalls' = [dbCalls EXCEPT ![k].pc = "thrown"]
               /\ UNCHANGED db
          ELSE /\ clients' = [clients EXCEPT ![dbCalls[k].mine] = "connected"]
               /\ IF client = NoClient
                  THEN /\ dbCalls' = [dbCalls EXCEPT ![k].pc = "thrown"]
                       /\ UNCHANGED db
                  ELSE /\ db' = client
                       /\ dbCalls' = [dbCalls EXCEPT ![k].pc = "returned", ![k].result = client]
               /\ UNCHANGED client
  /\ UNCHANGED dbRest

GetDB ==
  /\ Len(dbCalls) < MaxDbCalls
  /\ dbCalls' = Append(dbCalls, DbCall("getDB", "returned", db, NoClient))
  /\ UNCHANGED <<client, db, clients>>
  /\ UNCHANGED dbRest

\* closeDB up to its await, or to its return when there is no client
CloseDBStart ==
  /\ Len(dbCalls) < MaxDbCalls
  /\ IF client = NoClient
     THEN /\ dbCalls' = Append(dbCalls, DbCall("closeDB", "returned", NoDb, NoClient))
          /\ UNCHANGED clients
     ELSE /\ dbCalls' = Append(dbCalls, DbCall("closeDB", "awaiting", NoDb, client))
          /\ clients' = [clients EXCEPT ![client] = "closing"]
  /\ UNCHANGED <<client, db>>
  /\ UNCHANGED dbRest

\* client.close() of call k ends: both module variables are set to null, or
\* close rejects and closeDB rejects with it
CloseReturns ==
  /\ \E k \in 1..Len(dbCalls), ok \in BOOLEAN :
       /\ dbCalls[k].op = "closeDB" /\ dbCalls[k].pc = "awaiting"
       /\ IF ok
          THEN /\ clients' = [clients EXCEPT ![dbCalls[k].mine] = "closed"]
               /\ client' = NoClient
               /\ db' = NoDb
               /\ dbCalls' = [dbCalls EXCEPT ![k].pc = "returned"]
          ELSE /\ dbCalls' = [dbCalls EXCEPT ![k].pc = "thrown"]
               /\ UNCHANGED <<client, db, clients>>
  /\ UNCHANGED dbRest

InitDb ==
  /\ pc = "db"
  /\ files = <<>>
  /\ comments = <<>>
  /\ body = <<>>
  /\ patchMap = [p \in {} |-> 0]
  /\ positionComments = <<>>
  /\ \E u \in UriSettings : env = [NoEnv EXCEPT !.MONGODB_URI = u]
  /\ req = NoRequest
  /\ responses = <<>>
  /\ calls = <<>>
  /\ fetch = NoFetch
  /\ pr = NoPr
  /\ aiOut = NoAiOut
  /\ filePatches = <<>>
  /\ cp = NoCall
  /\ contentMap = EmptyMap
  /\ treeEntries = <<>>
  /\ truncated = <<>>
  /\ client = NoClient
  /\ db = NoDb
  /\ clients = <<>>
  /\ dbCalls = <<>>

NextDb == ConnectDBStart \/ ConnectReturns \/ GetDB \/ CloseDBStart \/ CloseReturns

SpecDb == InitDb /\ [][NextDb]_vars

(***************************************************************************)
(* Claims about db.js, under SpecDb.                                       *)
(***************************************************************************)
\* MONGODB_URI is set and valid
ValidUri == env.MONGODB_URI # <<>> /\ validateMongoDBUri(env.MONGODB_URI[1]) = "ok"

\* only connectDB has been called, and no connect has failed
OnlyConnects ==
  /\ \A k \in 1..Len(dbCalls) : dbCalls[k].op = "connectDB"
  /\ \A n \in 1..Len(clients) : clients[n] # "failed"

\* C20: with a valid MONGODB_URI and a reachable server, any number of
\* sequential or overlapping connectDB calls create at most one MongoClient,
\* none of them throws, and every call that has resolved gave the same
\* non-null database handle.
C20_ConnectOnce ==
  (ValidUri /\ OnlyConnects) =>
    /\ Len(clients) <= 1
    /\ \A k \in 1..Len(dbCalls) :
         /\ dbCalls[k].pc # "thrown"
         /\ dbCalls[k].pc = "returned" => dbCalls[k].result # NoDb
    /\ \A j, k \in 1..Len(dbCalls) :
         (dbCalls[j].pc = "returned" /\ dbCalls[k].pc = "returned")
           => dbCalls[j].result = dbCalls[k].result

\* a second connectDB call has resolved while the first still awaits
\* client.connect()
C20_OverlapReached ==
  /\ ValidUri /\ OnlyConnects
  /\ Len(dbCalls) >= 2
  /\ dbCalls[1].pc = "awaiting"
  /\ dbCalls[2].pc = "returned"

(***************************************************************************)
(* Claims about the order of the remote calls, under Spec.                 *)
(***************************************************************************)
\* the write calls of createPatchPullRequest, in the order of its code
WriteChain ==
  <<"git.createBlob", "git.getCommit", "git.createTree", "git.createCommit",
    "git.createRef", "pulls.create">>

IsWrite(api) == \E r \in 1..Len(WriteChain) : WriteChain[r] = api

Rank(api) == CHOOSE r \in 1..Len(WriteChain) : WriteChain[r] = api

WriteCalls == {n \in 1..Len(calls) : IsWrite(calls[n].api)}

\* the entries of filePatches that reach createBlob
StagedEntries == {j \in 1..Len(filePatches) : Stages(filePatches[j], contentMap)}

\* C21: the write calls of createPatchPullRequest are issued in the order
\* createBlob (once per staged file), getCommit, createTree, createCommit,
\* createRef, pulls.create, each only after every earlier one has succeeded,
\* so that a failed call is the last of the chain.
C21_WriteChainInOrder ==
  \A n \in WriteCalls :
    /\ \A m \in WriteCalls :
         m < n => /\ calls[m].status = "ok"
                  /\ Rank(calls[m].api) <= Rank(calls[n].api)
                  /\ Rank(calls[m].api) = Rank(calls[n].api)
                       => calls[n].api = "git.createBlob"
    /\ Rank(calls[n].api) > 1 =>
         \E m \in WriteCalls : m < n /\ Rank(calls[m].api) = Rank(calls[n].api) - 1
    /\ calls[n].api = "git.getCommit" =>
         Cardinality(CallsOf("git.createBlob")) = Cardinality(StagedEntries)

\* the whole chain has run for two staged files
C21_ChainCompleted ==
  /\ Succeeded("pulls.create")
  /\ Cardinality(CallsOf("git.createBlob")) = 2
  /\ cp.result.kind = "value"

\* call n of the log was issued after a call of `api` had succeeded
After(n, api) == \E m \in CallsOf(api) : m < n /\ calls[m].status = "ok"

\* call n of the log was issued after both reads of FETCH had succeeded
AfterFetch(n) == After(n, "pulls.get") /\ After(n, "pulls.listFiles")

\* C23: the stages of reviewPullRequest run in the order FETCH, ANALYZE,
\* RESOLVE, POST, SUGGEST: the completion call and createReview are issued
\* only after pulls.get and pulls.listFiles have both succeeded, createReview
\* only once the completion call has ended, and createPatchPullRequest and
\* the link comment only after createReview has succeeded, with a file-patch
\* list that is not empty and the feature not switched off.
C23_StagesInOrder ==
  /\ \A n \in CallsOf("openai.chat.completions.create") : AfterFetch(n)
  /\ \A n \in CallsOf("pulls.createReview") :
       /\ AfterFetch(n)
       /\ \A m \in CallsOf("openai.chat.completions.create") :
            m < n /\ calls[m].status # "pending"
  /\ cp.caller = "review" =>
       /\ Succeeded("pulls.createReview")
       /\ Len(filePatches) > 0
       /\ env.MERGEMONK_CREATE_PATCH_PR # "false"
  /\ \A n \in CallsOf("issues.createComment") :
       After(n, "pulls.createReview") /\ After(n, "pulls.create")

\* a review went through FETCH, the completion call and POST
C23_AllStagesPassed ==
  /\ pc = "done"
  /\ Succeeded("pulls.get") /\ Succeeded("pulls.listFiles")
  /\ Succeeded("openai.chat.completions.create")
  /\ Succeeded("pulls.createReview")

\* C24: a reviewPullRequest that reaches POST submits exactly one review; the
\* review has a comments field if and only if some comment of the analysis
\* resolved, and each comment in it has a position of validPositions of its
\* path's index.
C24_OneReviewValidPositions ==
  /\ Cardinality(CallsOf("pulls.createReview")) <= 1
  /\ pc = "post" => Cardinality(CallsOf("pulls.createReview")) = 1
  /\ \A n \in CallsOf("pulls.createReview") :
       LET review == calls[n].arg
           pm == parsePatchesForComments(files)
       IN /\ review.comments # <<>>
               <=> \E j \in 1..Len(comments) : Resolves(comments[j], pm)
          /\ review.comments # <<>> =>
               /\ Len(review.comments[1]) > 0
               /\ \A j \in 1..Len(review.comments[1]) :
                    LET c == review.comments[1][j]
                    IN /\ c.path \in DOMAIN pm
                       /\ c.position \in pm[c.path].validPositions

\* a review with a comments field was posted, and one of the analysis's
\* comments did not resolve
C24_PostedWithComments ==
  \E n \in CallsOf("pulls.createReview") :
    /\ calls[n].status = "ok"
    /\ calls[n].arg.comments # <<>>
    /\ Len(calls[n].arg.comments[1]) < Len(comments)

\* a review without a comments field was posted
C24_PostedWithoutComments ==
  \E n \in CallsOf("pulls.createReview") :
    calls[n].status = "ok" /\ calls[n].arg.comments = <<>>

(***************************************************************************)
(* Claims about commentsToPositions and parsePatchesForComments, under     *)
(* SpecDiff.                                                               *)
(***************************************************************************)
\* the indices of the input comments that resolve
Resolving == {j \in 1..Len(comments) : Resolves(comments[j], patchMap)}

\* the k-th resolving index, in input order
KthResolving(k) == CHOOSE j \in Resolving : Cardinality({i \in Resolving : i < j}) = k - 1

\* C25: the output of commentsToPositions is the order-preserving
\* subsequence of the input comments that resolve: one output per resolving
\* input, in input order, each with the path and the body of its input.
C25_OrderPreservingSubsequence ==
  pc = "diff_resolved" =>
    /\ Len(positionComments) = Cardinality(Resolving)
    /\ \A k \in 1..Len(positionComments) :
         LET c == comments[KthResolving(k)]
         IN /\ positionComments[k].path = c.path
            /\ positionComments[k].body = c.body
            /\ positionComments[k].position = patchMap[c.path].lineToPosition[c.line]

\* two comments with different bodies both resolved
C25_TwoResolvedInOrder ==
  /\ pc = "diff_resolved"
  /\ Len(comments) = 2 /\ Len(positionComments) = 2
  /\ positionComments[1].body # positionComments[2].body

(***************************************************************************)
(* Claims about the fallback of reviewPullRequest, under Spec.             *)
(***************************************************************************)
\* the review a run without OPENAI_API_KEY posts for the files fs, given the
\* setting rc of MERGEMONK_REQUEST_CHANGES: a function of fs and rc alone
RuleRunReview(fs, rc) ==
  LET result == runReview(fs)
      pcs == commentsToPositions(result.comments, parsePatchesForComments(fs))
  IN [pull_number |-> 7,
      event |-> IF rc = "false" THEN "COMMENT" ELSE "REQUEST_CHANGES",
      body |-> result.body,
      comments |-> IF Len(pcs) > 0 THEN <<pcs>> ELSE <<>>]

\* the run has no AI backend, or has one that failed
RuleBased == ~env.OPENAI_API_KEY \/ aiOut.kind \in AiFailureKinds

\* C26: for the same fetched pull request and files, a run whose AI backend
\* is configured but fails and a run with no AI backend post the same review
\* (body, comments, event): in both the review is RuleRunReview of the files
\* and of the event setting; and neither attempts a patch pull request.
C26_FallbackSameAsRuleRun ==
  (Received /\ RuleBased) =>
    /\ \A n \in CallsOf("pulls.createReview") :
         calls[n].arg = RuleRunReview(files, env.MERGEMONK_REQUEST_CHANGES)
    /\ cp.caller = "none"
    /\ filePatches = <<>>
    /\ WriteCalls = {} /\ ~Invoked("repos.getContent")

\* a run whose completion call threw has posted a review with comments
C26_FailedAiPosted ==
  /\ pc = "done"
  /\ env.OPENAI_API_KEY /\ aiOut.kind = "throws"
  /\ \E n \in CallsOf("pulls.createReview") :
       calls[n].status = "ok" /\ calls[n].arg.comments # <<>>

(***************************************************************************)
(* Termination.  A remote call that has been issued eventually returns or  *)
(* fails: while some call is pending, one of the pending calls ends.       *)
(***************************************************************************)
\* some pending call ends
CallReturns ==
  \/ DbWriteReturns \/ PullsGetReturns \/ ListFilesReturns
  \/ OpenAIReturns \/ CreateReviewReturns
  \/ PatchPrStep

SpecLive == Spec /\ WF_vars(CallReturns)

\* the calls a run makes at most once
OnceOnly ==
  {"pulls.get", "pulls.listFiles", "openai.chat.completions.create", "pulls.createReview",
   "git.getCommit", "git.createTree", "git.createCommit", "git.createRef", "pulls.create",
   "issues.createComment", "db.updateOne"}

\* no stage is run again: the once-only calls are made at most once,
\* repos.getContent at most once per path and createBlob at most once per
\* entry of filePatches
NoRetry ==
  /\ \A api \in OnceOnly : Cardinality(CallsOf(api)) <= 1
  /\ \A m, n \in CallsOf("repos.getContent") : calls[m].arg.path = calls[n].arg.path => m = n
  /\ Cardinality(CallsOf("git.createBlob")) <= Len(filePatches)

\* the run is over: the request is answered, or the direct call has
\* returned or thrown
Terminated ==
  /\ pc = "done"
  /\ cp.caller = "direct" => cp.stage \in {"returned", "thrown"}
  /\ Received => Len(responses) = 1

\* C27: every started run eventually terminates, in success or in a fatal
\* error, once terminated it stays so, and it never runs a stage again.
C27_Terminates ==
  /\ (pc # "idle") ~> Terminated
  /\ [][Terminated => Terminated']_vars
  /\ []NoRetry

\* a review run has ended in the fatal error of a failed pulls.listFiles,
\* with pulls.get ended too
C27_EndedInFatalError ==
  /\ Terminated /\ Received
  /\ Failed("pulls.listFiles")
  /\ \A n \in 1..Len(calls) : calls[n].status # "pending"
  /\ responses = <<Response(500, "Review failed")>>

(***************************************************************************)
(* Claims about the files createPatchPullRequest fetches and stages, under *)
(* Spec                                                                    *)
(***************************************************************************)
TreeCalls == CallsOf("git.createTree")

\* the entries of the tree handed to call n of git.createTree have pairwise
\* different paths
OnePerPath(n) ==
  \A i, j \in 1..Len(calls[n].arg.tree) :
    calls[n].arg.tree[i].path = calls[n].arg.tree[j].path => i = j

\* C28: the tree passed to git.createTree holds at most one entry per file
\* path, even when several FilePatches name the same path.
C28_OneEntryPerPath == \A n \in TreeCalls : OnePerPath(n)

\* two FilePatches of one path have both been staged and handed to
\* git.createTree, while the path was fetched once
C28_SamePathStagedTwice ==
  /\ Len(filePatches) = 2
  /\ filePatches[1].path = filePatches[2].path
  /\ Cardinality(CallsOf("repos.getContent")) = 1
  /\ \E n \in TreeCalls : Len(calls[n].arg.tree) = 2 /\ ~OnePerPath(n)

ContentCalls == CallsOf("repos.getContent")

\* the fetches are over: getFileContentsAtRef was entered and has returned
FetchOver == ContentCalls # {} /\ cp.stage # "getContent"

\* the calls of repos.getContent are, in order, for the distinct paths of
\* filePatches in order of first occurrence, each at the head commit; none
\* is repeated, and once the fetches are over none is missing or pending
FetchedOnce ==
  LET paths == PathsOf(filePatches)
      nth(k) == CHOOSE n \in ContentCalls : Cardinality({m \in ContentCalls : m <= n}) = k
  IN /\ Cardinality(ContentCalls) <= Len(paths)
     /\ \A k \in 1..Cardinality(ContentCalls) :
          calls[nth(k)].arg = [path |-> paths[k], ref |-> pr.head.sha]
     /\ FetchOver => /\ Cardinality(ContentCalls) = Len(paths)
                     /\ \A n \in ContentCalls : calls[n].status # "pending"

\* call n of repos.getContent threw or resolved with a directory listing
Unfetched(n) == calls[n].status = "failed" \/ calls[n].data = <<"directory">>

\* path q has no fetched content, no blob and no tree entry
Dropped(q) ==
  /\ q \notin DOMAIN contentMap
  /\ \A n \in CallsOf("git.createBlob") : calls[n].arg.path # q
  /\ \A j \in 1..Len(treeEntries) : treeEntries[j].path # q
  /\ \A n \in TreeCalls : \A j \in 1..Len(calls[n].arg.tree) : calls[n].arg.tree[j].path # q

\* C29: each distinct requested path is fetched exactly once; a path whose
\* fetch throws or gives a directory is never patched or staged; a fetch
\* that throws never makes createPatchPullRequest throw; and when no path
\* could be fetched the call returns null without any write call.
C29_FetchOnceDropUnfetched ==
  /\ FetchedOnce
  /\ \A n \in ContentCalls : Unfetched(n) => Dropped(calls[n].arg.path)
  /\ cp.stage = "thrown" => \E n \in WriteCalls : calls[n].status = "failed"
  /\ (FetchOver /\ \A n \in ContentCalls : Unfetched(n)) =>
       /\ cp.stage = "returned" /\ cp.result = NullResult
       /\ WriteCalls = {}

\* two paths were requested, the fetch of one threw and the other was
\* fetched, patched and staged alone, and the call returned its pull request
C29_OneDroppedOneStaged ==
  /\ Cardinality(ContentCalls) = 2
  /\ \E m, n \in ContentCalls :
       /\ calls[m].status = "failed"
       /\ calls[n].status = "ok" /\ calls[n].data = <<"file">>
  /\ Len(treeEntries) = 1
  /\ cp.stage = "returned" /\ cp.result.kind = "value"

\* one fetch threw, the other gave a directory: null is returned and nothing
\* was written
C29_NothingFetched ==
  /\ Cardinality(ContentCalls) = 2
  /\ \E m, n \in ContentCalls :
       calls[m].status = "failed" /\ calls[n].data = <<"directory">>
  /\ cp.stage = "returned" /\ cp.result = NullResult
  /\ WriteCalls = {}

(***************************************************************************)
(* Claims about the lines of a hunk body, under SpecDiff                   *)
(***************************************************************************)
\* line n of the text lies in a hunk body: a hunk header precedes it and it
\* is not a hunk header itself
InHunkBody(lines, n) ==
  /\ hunkMatch(lines[n]) = NoMatch
  /\ \E h \in 1..(n - 1) : hunkMatch(lines[h]) # NoMatch

\* the loop's pass over line n took the next position
CountsTowardPosition(lines, n) ==
  ParseLines(lines, n).position = ParseLines(lines, n - 1).position + 1

\* the loop's pass over line n took the next position, recorded it as valid
\* for the new-file line it stood at, and moved on to the next new-file line
CountsAsNewFileLine(lines, n, index) ==
  LET before == ParseLines(lines, n - 1)
      after == ParseLines(lines, n)
  IN /\ after.position = before.position + 1
     /\ after.newFileLine = before.newFileLine + 1
     /\ after.position \in index.validPositions
     /\ before.newFileLine \in DOMAIN after.lineToPosition
     /\ after.lineToPosition[before.newFileLine] = after.position

\* C30 (as claimed): every added or context line of a hunk body takes the
\* next position, is recorded as a valid target and advances the new-file
\* line counter by one, and every removed line of a hunk body takes the next
\* position, whatever the content of the line is.
C30_EveryBodyLineCounts ==
  DiffParsed =>
    \A n \in 1..Len(ThePatch) :
      InHunkBody(ThePatch, n) =>
        /\ IsNewFileLine(ThePatch[n]) => CountsAsNewFileLine(ThePatch, n, patchMap[PathA])
        /\ StartsWith(ThePatch[n], <<"-">>) => CountsTowardPosition(ThePatch, n)

\* C30: a hunk whose body is the added line "+++i" and a context line has
\* been indexed: the added line took no position, the context line took 1
C30_PlusPlusSkipped ==
  /\ DiffParsed
  /\ ThePatch = <<HunkA, PlusPlusLine, CtxLine>>
  /\ patchMap[PathA].validPositions = {1}
  /\ patchMap[PathA].lineToPosition = [l \in {1} |-> 1]

(***************************************************************************)
(* Claims about the position counter and the index, under SpecDiff         *)
(***************************************************************************)
\* parsePatchesForComments has just returned the index of the files
Indexed == pc = "diff_parsed"

\* the position the loop holds after the first n lines of the text
PositionAfter(lines, n) == ParseLines(lines, n).position

\* C31: over the lines of one file's diff the position counter starts at 0,
\* each line either leaves it or raises it by exactly one, a hunk header
\* leaves it (the first header and every later one), and the positions
\* recorded in the index are positions 1..last that some line took.
C31_PositionsRiseByOne ==
  Indexed =>
    /\ PositionAfter(ThePatch, 0) = 0
    /\ \A n \in 1..Len(ThePatch) :
         /\ PositionAfter(ThePatch, n) \in
              {PositionAfter(ThePatch, n - 1), PositionAfter(ThePatch, n - 1) + 1}
         /\ hunkMatch(ThePatch[n]) # NoMatch =>
              PositionAfter(ThePatch, n) = PositionAfter(ThePatch, n - 1)
    /\ PathA \in DOMAIN patchMap =>
         /\ patchMap[PathA].validPositions \subseteq 1..PositionAfter(ThePatch, Len(ThePatch))
         /\ \A q \in patchMap[PathA].validPositions :
              \E n \in 1..Len(ThePatch) :
                /\ PositionAfter(ThePatch, n) = q
                /\ PositionAfter(ThePatch, n - 1) = q - 1

\* a diff of two hunks has been indexed: the line below the second header
\* has the position after that of the line above the header
C31_SecondHunkGoesOn ==
  /\ DiffParsed
  /\ ThePatch = TwoHunkDiff
  /\ PositionAfter(ThePatch, 2) = 1
  /\ PositionAfter(ThePatch, 3) = 1
  /\ PositionAfter(ThePatch, 4) = 2
  /\ patchMap[PathA].validPositions = {1, 2}

\* the loop's pass over line n recorded a position for a new-file line
Maps(lines, n) ==
  ParseLines(lines, n).validPositions # ParseLines(lines, n - 1).validPositions

\* the new-file line the loop stood at when it came to line n
LineAt(lines, n) == ParseLines(lines, n - 1).newFileLine

\* C32: every position recorded for a new-file line stays in validPositions,
\* and lineToPosition holds for each new-file line the position of the last
\* diff line that mapped to it.
C32_LastWriteWins ==
  (Indexed /\ PathA \in DOMAIN patchMap) =>
    \A n \in 1..Len(ThePatch) :
      Maps(ThePatch, n) =>
        /\ PositionAfter(ThePatch, n) \in patchMap[PathA].validPositions
        /\ LineAt(ThePatch, n) \in DOMAIN patchMap[PathA].lineToPosition
        /\ (\A m \in (n + 1)..Len(ThePatch) :
              Maps(ThePatch, m) => LineAt(ThePatch, m) # LineAt(ThePatch, n))
             => patchMap[PathA].lineToPosition[LineAt(ThePatch, n)] = PositionAfter(ThePatch, n)

\* two hunks that both start at new-file line 3 have been indexed: line 3
\* has the position of the second hunk's line, and both positions are valid
C32_OverlapIndexed ==
  /\ DiffParsed
  /\ ThePatch = TwoHunkDiff
  /\ Maps(ThePatch, 2) /\ Maps(ThePatch, 4)
  /\ LineAt(ThePatch, 2) = 3 /\ LineAt(ThePatch, 4) = 3
  /\ patchMap[PathA].lineToPosition = [l \in {3} |-> 2]
  /\ patchMap[PathA].validPositions = {1, 2}

(***************************************************************************)
(* Claims about the rule-based analyzer, under SpecDiff                    *)
(***************************************************************************)
RuleReviewed == pc = "diff_reviewed"

\* the lines of the text the rule is about: added lines with console.log
DebugPrints(lines) ==
  {n \in 1..Len(lines) : StartsWith(lines[n], <<"+">>) /\ Includes(lines[n], ConsoleLog)}

\* the k-th of them
KthDebugPrint(lines, k) ==
  CHOOSE n \in DebugPrints(lines) : Cardinality({m \in DebugPrints(lines) : m <= n}) = k

HasHeaderBefore(lines, n) == \E h \in 1..(n - 1) : hunkMatch(lines[h]) # NoMatch

\* the nearest hunk header ahead of line n
NearestHeader(lines, n) ==
  CHOOSE h \in 1..(n - 1) :
    /\ hunkMatch(lines[h]) # NoMatch
    /\ \A g \in (h + 1)..(n - 1) : hunkMatch(lines[g]) = NoMatch

\* the added lines from below header h up to and including line n
AddedLines(lines, h, n) == {m \in (h + 1)..n : StartsWith(lines[m], <<"+">>)}

\* C33 (as claimed): the analyzer's comments are one per added line with
\* console.log, in order, and none else; the line of each is the new-file
\* start of the nearest preceding hunk header plus the number of added
\* lines from that header up to and including the flagged line, minus one.
C33_OnePerDebugPrint ==
  RuleReviewed =>
    /\ Len(comments) = Cardinality(DebugPrints(ThePatch))
    /\ \A k \in 1..Len(comments) :
         LET n == KthDebugPrint(ThePatch, k)
         IN /\ comments[k].path = PathA
            /\ HasHeaderBefore(ThePatch, n) =>
                 LET h == NearestHeader(ThePatch, n)
                 IN comments[k].line =
                      hunkMatch(ThePatch[h]) + Cardinality(AddedLines(ThePatch, h, n)) - 1

\* a hunk whose body is the added line "+++i" and an added console.log line
\* has been reviewed: the one comment is for line 1, the line of "+++i"
C33_PlusPlusNotCounted ==
  /\ RuleReviewed
  /\ ThePatch = <<HunkA, PlusPlusLine, LogLine>>
  /\ comments = <<[path |-> PathA, line |-> 1, body |-> RuleCommentBody]>>

\* a text of well-formed hunks: a hunk header first, then headers, context,
\* added and deleted lines only
WellFormedHunks(lines) ==
  /\ hunkMatch(lines[1]) # NoMatch
  /\ \A n \in 2..Len(lines) :
       \/ hunkMatch(lines[n]) # NoMatch
       \/ StartsWith(lines[n], <<" ">>) \/ StartsWith(lines[n], <<"+">>)
       \/ StartsWith(lines[n], <<"-">>)

\* the context lines between header h and line n
ContextLines(lines, h, n) == {m \in (h + 1)..(n - 1) : StartsWith(lines[m], <<" ">>)}

\* how far the line of the k-th comment falls short of the new-file line the
\* position indexer stands at when it comes to the k-th flagged line
ShortBy(k) == LineAt(ThePatch, KthDebugPrint(ThePatch, k)) - comments[k].line

\* C34 (as claimed): for well-formed hunks, the line inferred for a flagged
\* line differs by at most one from the new-file line the position indexer
\* holds for that diff line.
C34_WithinOne ==
  (RuleReviewed /\ WellFormedHunks(ThePatch)) =>
    \A k \in 1..Len(comments) : ShortBy(k) \in {-1, 0, 1}

\* C34 (amended): for a flagged line below a hunk header, the inferred line
\* is never above the indexer's new-file line and falls short of it by the
\* number of context lines between the nearest preceding header and the
\* flagged line, and by one more when the flagged line starts with "+++";
\* deleted lines do not change the difference.
C34_ShortByContextLines ==
  RuleReviewed =>
    /\ Len(comments) = Cardinality(DebugPrints(ThePatch))
    /\ \A k \in 1..Len(comments) :
         LET n == KthDebugPrint(ThePatch, k)
         IN HasHeaderBefore(ThePatch, n) =>
              ShortBy(k) =
                Cardinality(ContextLines(ThePatch, NearestHeader(ThePatch, n), n))
                  + (IF StartsWith(ThePatch[n], <<"+", "+", "+">>) THEN 1 ELSE 0)

\* a hunk with two context lines ahead of the console.log line has been
\* reviewed: the comment is for line 1, the indexer has the line as line 3
C34_TwoShort ==
  /\ RuleReviewed
  /\ ThePatch = LogAfterContextDiff
  /\ Len(comments) = 1 /\ comments[1].line = 1
  /\ LineAt(ThePatch, 4) = 3
  /\ patchMap[PathA].lineToPosition[3] = 3

\* C35: in every index parsePatchesForComments produces, every value of a
\* file's lineToPosition is a member of that file's validPositions; so
\* commentsToPositions keeps every comment whose path and line are mapped
\* and drops a comment only when its path or its line is unmapped.
C35_MappedPositionsAreValid ==
  DiffParsed =>
    /\ \A q \in DOMAIN patchMap :
         \A l \in DOMAIN patchMap[q].lineToPosition :
           patchMap[q].lineToPosition[l] \in patchMap[q].validPositions
    /\ pc = "diff_resolved" =>
         \A k \in 1..Len(comments) :
           IsMapped(comments[k]) =>
             \E i \in 1..Len(positionComments) :
               positionComments[i] =
                 [path |-> comments[k].path,
                  position |-> patchMap[comments[k].path].lineToPosition[comments[k].line],
                  body |-> comments[k].body]

\* of two comments, the one for a mapped line was kept and the one for a
\* line with no position was dropped
C35_UnmappedLineDropped ==
  /\ pc = "diff_resolved"
  /\ ThePatch = TwoHunkDiff
  /\ Len(comments) = 2
  /\ comments[1].path = PathA /\ comments[1].line = 3
  /\ comments[2].path = PathA /\ comments[2].line = 2
  /\ positionComments = <<[path |-> PathA, position |-> 2, body |-> <<"nit">>]>>

(***************************************************************************)
(* Claims about what createPatchPullRequest returns, under Spec            *)
(***************************************************************************)
\* the one call of `api` in the log
TheCall(api) == calls[CHOOSE n \in CallsOf(api) : TRUE]

\* mergemonk/patches-<PR number>-<first 7 characters of the head sha>
PatchBranch ==
  <<"mergemonk/patches-", pr.number, [i \in 1..7 |-> pr.head.sha[i]]>>

\* C36: createPatchPullRequest returns a result only if git.createRef and
\* pulls.create both succeeded; the returned branch is the ref that was
\* created, mergemonk/patches-<number>-<7 characters of the head sha>; the
\* new commit has the head sha as its only parent; and the pull request
\* opened has that branch as head and the original head ref as base.
C36_ResultMeansBranchAndPr ==
  cp.result.kind = "value" =>
    /\ Succeeded("git.createRef") /\ Succeeded("pulls.create")
    /\ Cardinality(CallsOf("git.createRef")) = 1
    /\ Cardinality(CallsOf("pulls.create")) = 1
    /\ cp.result.branch = <<PatchBranch>>
    /\ TheCall("git.createRef").arg.ref = <<"refs/heads/", PatchBranch>>
    /\ TheCall("git.createRef").arg.sha =
         CommitSha(TheCall("git.createCommit").arg.tree, TheCall("git.createCommit").arg.parents)
    /\ TheCall("git.createCommit").arg.parents = <<pr.head.sha>>
    /\ TheCall("pulls.create").arg.head = PatchBranch
    /\ TheCall("pulls.create").arg.base = pr.head.ref

\* a call has returned its branch and pull request URL
C36_BranchReturned ==
  /\ cp.stage = "returned"
  /\ cp.result.kind = "value"
  /\ cp.result.branch = <<PatchBranch>>
  /\ cp.result.pullRequestUrl # <<>>
  /\ TheCall("pulls.create").status = "ok"

(***************************************************************************)
(* Claims about the responses of POST /webhook, under SpecLive             *)
(***************************************************************************)
Answered == Len(responses) = 1

\* C38: every request handed to handleWebhook gets exactly one response:
\* never a second one, the one sent is not changed, and, every awaited call
\* ending, never none.
C38_ExactlyOneResponse ==
  /\ [](Received => Len(responses) <= 1)
  /\ [][Answered => responses' = responses]_vars
  /\ (Received ~> Answered)

\* an installation event whose write failed has been answered by the route
C38_FailedWriteAnswered ==
  /\ Received
  /\ req.event = "installation"
  /\ Failed("db.updateOne")
  /\ responses = <<Response(500, "Internal error")>>

(***************************************************************************)
(* Claims about the module state of db.js, under SpecDb                    *)
(***************************************************************************)
\* connectDB call k comes back from its await in this step
ConnectEnds(k) ==
  /\ dbCalls[k].op = "connectDB"
  /\ dbCalls[k].pc = "awaiting"
  /\ dbCalls'[k].pc # "awaiting"

\* C39 (as claimed): under every interleaving of connectDB, closeDB and getDB
\* calls, db is non-null only if client is non-null, and a connectDB call
\* whose client.connect() succeeds returns, without throwing, the handle of
\* the current client.
C39_DbOnlyWithClient ==
  [][/\ db' # NoDb => client' # NoClient
     /\ \A k \in 1..Len(dbCalls) :
          (ConnectEnds(k) /\ clients'[dbCalls[k].mine] = "connected") =>
            /\ dbCalls'[k].pc = "returned"
            /\ dbCalls'[k].result # NoDb
            /\ dbCalls'[k].result = client']_vars

\* a connectDB call has thrown although its own connect succeeded: closeDB
\* had set the module's client to null while the call was awaiting
C39_ThrownAfterConnect ==
  /\ Len(dbCalls) = 2
  /\ dbCalls[1] = DbCall("connectDB", "thrown", NoDb, 1)
  /\ dbCalls[2] = DbCall("closeDB", "returned", NoDb, 1)
  /\ clients = <<"connected">>
  /\ client = NoClient /\ db = NoDb

\* a call of connectDB is made in this step
ConnectCalled ==
  /\ Len(dbCalls') = Len(dbCalls) + 1
  /\ dbCalls'[Len(dbCalls')].op = "connectDB"

\* C40 (as claimed): when client.connect() fails, connectDB rejects and
\* leaves client and db both null, and a connectDB call made while client
\* is null makes a fresh connection attempt with a client of its own.
C40_FailedConnectClears ==
  [][/\ \A k \in 1..Len(dbCalls) :
          (ConnectEnds(k) /\ clients'[dbCalls[k].mine] = "failed") =>
            /\ dbCalls'[k].pc = "thrown"
            /\ client' = NoClient
            /\ db' = NoDb
     /\ (ConnectCalled /\ ValidUri /\ client = NoClient) =>
          /\ dbCalls'[Len(dbCalls')].pc = "awaiting"
          /\ Len(clients') = Len(clients) + 1
          /\ client' = Len(clients')]_vars

\* the connect of the third call has failed and db is still set: the first
\* call had come back after a closeDB and taken the third call's client
C40_DbLeftSet ==
  /\ Len(dbCalls) = 3
  /\ dbCalls[1].op = "connectDB" /\ dbCalls[1].pc = "returned"
  /\ dbCalls[2].op = "closeDB" /\ dbCalls[2].pc = "returned"
  /\ dbCalls[3].op = "connectDB" /\ dbCalls[3].pc = "thrown"
  /\ clients[2] = "failed"
  /\ client = NoClient /\ db = 2

====
